---- MODULE Spec2Model ----
(***************************************************************************)
(* Model of the NexIntel observation pipeline:                             *)
(*   agents/news_agent.py  NewsDataAgent (filter, extract, dedup+limit)    *)
(*   factors/tag_split.py  TagSplitter (primary tag, split into factors)   *)
(*   factors/schema.py     Observation, TextualFactor                      *)
(* Python strings are modelled as sequences of one-character strings, so   *)
(* that lower(), strip(), split(), re.sub() and str comparison are         *)
(* computed and not assumed.  None and "" are both the empty sequence:     *)
(* every use in the code is `x or default`, which cannot tell them apart.  *)
(***************************************************************************)
EXTENDS Integers, Sequences, FiniteSets, TLC

\* ------------------------------------------------------------------ bounds
\* longest observation list given to the deduplicator / held by a factor
MaxObsLen == 3
\* largest configured max_obs / max_obs_per_factor
MaxCount == 2
\* largest configured max_tokens_factor
MaxBudget == 4
\* longest tag list of the tag specification
MaxTagLen == 3
\* largest event batch given to run
MaxEvents == 2
\* events in a batch given to _filter_events alone
MaxScored == 3
\* raw tags given to _normalize_tags
MaxRawTags == 2
\* the largest configured max_tags_per_observation
MaxTagsPerObs == 2
\* words of a text whose estimated token length is taken
MaxWords == 7

\* ------------------------------------------------------- python strings
\* The characters of the model in code-point order (their relative order is
\* all that str comparison and sort() read).
Chars ==
  << "\t", "\n", " ", "!", "#", "'", ",", "-", ".", "/",
     "0", "1", "2", "3", "4", "5", "6", "7", "8", "9", ":", ";",
     "A", "B", "C", "D", "E", "F", "G", "H", "I", "J", "K", "L", "M",
     "N", "O", "P", "Q", "R", "S", "T", "U", "V", "W", "X", "Y", "Z", "[", "]", "_",
     "a", "b", "c", "d", "e", "f", "g", "h", "i", "j", "k", "l", "m",
     "n", "o", "p", "q", "r", "s", "t", "u", "v", "w", "x", "y", "z", "{", "|", "}" >>

Range(s) == {s[i] : i \in 1..Len(s)}

Ord(c) == CHOOSE i \in 1..Len(Chars) : Chars[i] = c

UpperLetters == << "A", "B", "C", "D", "E", "F", "G", "H", "I", "J", "K", "L", "M",
                   "N", "O", "P", "Q", "R", "S", "T", "U", "V", "W", "X", "Y", "Z" >>
LowerLetters == << "a", "b", "c", "d", "e", "f", "g", "h", "i", "j", "k", "l", "m",
                   "n", "o", "p", "q", "r", "s", "t", "u", "v", "w", "x", "y", "z" >>
DigitChars == << "0", "1", "2", "3", "4", "5", "6", "7", "8", "9" >>
Digits == Range(DigitChars)
Whitespace == {" ", "\t", "\n"}

\* str.lower() / str.upper() on one character
LowerChar(c) ==
  IF c \in Range(UpperLetters)
  THEN LowerLetters[CHOOSE i \in 1..Len(UpperLetters) : UpperLetters[i] = c]
  ELSE c
UpperChar(c) ==
  IF c \in Range(LowerLetters)
  THEN UpperLetters[CHOOSE i \in 1..Len(LowerLetters) : LowerLetters[i] = c]
  ELSE c

Lower(s) == [i \in 1..Len(s) |-> LowerChar(s[i])]
Upper(s) == [i \in 1..Len(s) |-> UpperChar(s[i])]

IsSpace(c) == c \in Whitespace
\* [a-z0-9]
IsLowerAlnum(c) == c \in Range(LowerLetters) \cup Digits
\* \w of the re module
IsWordChar(c) == c \in Range(LowerLetters) \cup Range(UpperLetters) \cup Digits \cup {"_"}

\* str.strip(chars): drop the leading and trailing characters of the set
StripSet(s, drop) ==
  LET keep == {i \in 1..Len(s) : s[i] \notin drop}
  IN  IF keep = {} THEN << >>
      ELSE LET lo == CHOOSE i \in keep : \A j \in keep : i <= j
               hi == CHOOSE i \in keep : \A j \in keep : j <= i
           IN  SubSeq(s, lo, hi)
\* str.strip()
Strip(s) == StripSet(s, Whitespace)

\* len(s.split()): the number of maximal runs of non-whitespace characters
WordCount(s) ==
  Cardinality({i \in 1..Len(s) : ~IsSpace(s[i]) /\ (i = 1 \/ IsSpace(s[i - 1]))})

\* re.sub(<class>+, r, s): every maximal run of characters of `bad` becomes r
ReplaceRuns(s, bad, r) ==
  LET keep(i) == s[i] \notin bad \/ i = 1 \/ s[i - 1] \notin bad
      ix == SelectSeq([i \in 1..Len(s) |-> i], keep)
  IN  [k \in 1..Len(ix) |-> IF s[ix[k]] \in bad THEN r ELSE s[ix[k]]]

\* `sub in s`
Contains(sub, s) ==
  \E i \in 0..(Len(s) - Len(sub)) : SubSeq(s, i + 1, i + Len(sub)) = sub

\* s.count(sub) for a non-empty sub: non-overlapping occurrences, left to right
RECURSIVE CountFrom(_, _, _)
CountFrom(s, sub, from) ==
  IF from + Len(sub) - 1 > Len(s) THEN 0
  ELSE IF SubSeq(s, from, from + Len(sub) - 1) = sub
       THEN 1 + CountFrom(s, sub, from + Len(sub))
       ELSE CountFrom(s, sub, from + 1)
Count(s, sub) == CountFrom(s, sub, 1)

\* a < b for python str (lexicographic by code point)
RECURSIVE StrLess(_, _)
StrLess(a, b) ==
  IF b = << >> THEN FALSE
  ELSE IF a = << >> THEN TRUE
  ELSE IF Head(a) = Head(b) THEN StrLess(Tail(a), Tail(b))
  ELSE Ord(Head(a)) < Ord(Head(b))

\* `x or d` for a str-or-None x
OrElse(x, d) == IF x = << >> THEN d ELSE x

\* list.sort(key=...) is stable: the element at position i moves behind every
\* element with a smaller key and every earlier element with an equal key.
\* keys[i] is the (integer) key of s[i].
StableSort(s, keys) ==
  LET rank(i) == 1 + Cardinality({j \in 1..Len(s) :
                       keys[j] < keys[i] \/ (keys[j] = keys[i] /\ j < i)})
  IN  [k \in 1..Len(s) |-> s[CHOOSE i \in 1..Len(s) : rank(i) = k]]

\* sum(f(x) for x in s) over a sequence of integers
RECURSIVE SumSeq(_)
SumSeq(s) == IF s = << >> THEN 0 ELSE Head(s) + SumSeq(Tail(s))

\* ---------------------------------------------------------------- schema
\* factors/schema.py: the fields the Observation dataclass declares
ObservationFields == {"text", "asset", "confidence", "tags"}
\* default of Observation.confidence (1.0)
DefaultConfidence == 1

\* Observation(**kwargs): a dataclass __init__ raises TypeError on a keyword
\* that is not one of its fields.
\* (mutant: any keyword is accepted, as if Observation had the field)
ObservationInitAcceptsAny(kwargs) == FALSE
ObservationInitRaises(kwargs) == kwargs \ ObservationFields # {}

Observation(text, asset, tags) ==
  [text |-> text, asset |-> asset, confidence |-> DefaultConfidence, tags |-> tags]

TextualFactor(date, agent_name, observations_, length_tokens, preference, raw_sources) ==
  [date |-> date, agent_name |-> agent_name, observations |-> observations_,
   length_tokens |-> length_tokens, preference |-> preference,
   raw_sources |-> raw_sources]

\* ------------------------------------------------------ string literals
S_NA == << "N", "A" >>
S_Bar == << "|" >>
S_Hash == << "#" >>
S_etf == << "e", "t", "f" >>
S_ETF == << "E", "T", "F" >>
S_news == << "n", "e", "w", "s" >>
S_News == << " ", "N", "e", "w", "s" >>
S_macro == << "m", "a", "c", "r", "o" >>
S_misc == << "m", "i", "s", "c" >>
S_custom == << "c", "u", "s", "t", "o", "m" >>
S_bangs == << "!", "!", "!" >>
S_fallback == << "f", "a", "l", "l", "b", "a", "c", "k" >>
S_onchain == << "o", "n", "c", "h", "a", "i", "n" >>
S_derivatives == << "d", "e", "r", "i", "v", "a", "t", "i", "v", "e", "s" >>
S_orderbook == << "o", "r", "d", "e", "r", "b", "o", "o", "k" >>
S_tokenomics == << "t", "o", "k", "e", "n", "o", "m", "i", "c", "s" >>
S_stablecoins == << "s", "t", "a", "b", "l", "e", "c", "o", "i", "n", "s" >>
S_protocol == << "p", "r", "o", "t", "o", "c", "o", "l" >>
S_ecosystem == << "e", "c", "o", "s", "y", "s", "t", "e", "m" >>
S_liquidity == << "l", "i", "q", "u", "i", "d", "i", "t", "y" >>
S_narratives == << "n", "a", "r", "r", "a", "t", "i", "v", "e", "s" >>
S_regulation == << "r", "e", "g", "u", "l", "a", "t", "i", "o", "n" >>
S_cex == << "c", "e", "x" >>
S_dex == << "d", "e", "x" >>
S_sentiment == << "s", "e", "n", "t", "i", "m", "e", "n", "t" >>
S_NewsDataAgent == << "N", "e", "w", "s", "D", "a", "t", "a", "A", "g", "e", "n", "t" >>
S_BTC == << "B", "T", "C" >>
S_btc == << "b", "t", "c" >>
S_ETH == << "E", "T", "H" >>
S_observations == << "o", "b", "s", "e", "r", "v", "a", "t", "i", "o", "n", "s" >>
S_text == << "t", "e", "x", "t" >>
S_asset == << "a", "s", "s", "e", "t" >>
S_symbols == << "s", "y", "m", "b", "o", "l", "s" >>
S_rating == << "r", "a", "t", "i", "n", "g" >>
S_tags == << "t", "a", "g", "s" >>
S_None == << "N", "o", "n", "e" >>
S_True == << "T", "r", "u", "e" >>
S_False == << "F", "a", "l", "s", "e" >>
\* "No new significant events identified; neutral day."
NeutralText ==
  << "N", "o", " ", "n", "e", "w", " ", "s", "i", "g", "n", "i", "f", "i", "c", "a", "n", "t", " ", "e", "v", "e", "n", "t", "s", " ", "i", "d", "e", "n", "t", "i", "f", "i", "e", "d", ";",
     " ", "n", "e", "u", "t", "r", "a", "l", " ", "d", "a", "y", "." >>
\* ". May affect short-term supply/demand."
FallbackSuffix ==
  << ".", " ", "M", "a", "y", " ", "a", "f", "f", "e", "c", "t", " ", "s", "h", "o", "r", "t", "-", "t", "e", "r", "m", " ", "s", "u", "p", "p", "l", "y", "/", "d", "e", "m", "a", "n", "d", "." >>
None == << >>

\* ------------------------------------------------- agents/news_agent.py
\* _rough_token_len(text): int(words * 1.3); the float product truncates to
\* floor(13 * words / 10) for every word count a text can have.
\* (mutant: round() in the place of int())
RoughTokenLenRounded(text) == (WordCount(text) * 13 + 5) \div 10
RoughTokenLen(text) == (WordCount(text) * 13) \div 10

\* the key of _dedup_and_limit: f"{obs.asset or 'NA'}|{obs.text}"
DedupKey(o) == OrElse(o.asset, S_NA) \o S_Bar \o o.text

\* One iteration of the for loop of _dedup_and_limit on observation o.
\* st = [seen, kept, total, brk]; brk records that the loop has hit a break.
DedupStep(st, o, max_obs, max_tokens_factor) ==
  LET key == DedupKey(o)
      cand == RoughTokenLen(o.text)
  IN  IF key \in st.seen THEN st
      ELSE IF st.total + cand > max_tokens_factor
           THEN [st EXCEPT !.seen = @ \cup {key}, !.brk = TRUE]
           ELSE [seen |-> st.seen \cup {key},
                 kept |-> Append(st.kept, o),
                 total |-> st.total + cand,
                 brk |-> Len(st.kept) + 1 >= max_obs]

DedupInit == [seen |-> {}, kept |-> << >>, total |-> 0, brk |-> FALSE]

\* _dedup_and_limit as a function: the loop run to its end
RECURSIVE DedupLoop(_, _, _, _)
DedupLoop(st, rest, max_obs, max_tokens_factor) ==
  IF rest = << >> \/ st.brk THEN st.kept
  ELSE DedupLoop(DedupStep(st, Head(rest), max_obs, max_tokens_factor),
                 Tail(rest), max_obs, max_tokens_factor)
DedupAndLimit(observations_, max_obs, max_tokens_factor) ==
  DedupLoop(DedupInit, observations_, max_obs, max_tokens_factor)

\* ---- the value json.loads returns: [t, s, n, l, d] with t the type and
\* one payload: s the str, n the int (1/0 for a bool), l the list, d the dict
\* as its (key, value) pairs in order.  Floats are left out: int(float(x))
\* of a JSON float is the truncation of a number the model has as an int.
JNull == [t |-> "null", s |-> << >>, n |-> 0, e |-> 0, l |-> << >>, d |-> << >>]
JStr(x) == [JNull EXCEPT !.t = "str", !.s = x]
JNum(x) == [JNull EXCEPT !.t = "num", !.n = x]
\* the int m * 10^e, m a single digit other than 0 with its sign: an int
\* wider than the integers of the model
JPow(m, e) == [JNull EXCEPT !.t = "num", !.n = m, !.e = e]
JBool(x) == [JNull EXCEPT !.t = "bool", !.n = IF x THEN 1 ELSE 0]
JList(x) == [JNull EXCEPT !.t = "list", !.l = x]
JDict(x) == [JNull EXCEPT !.t = "dict", !.d = x]
KV(k, v) == [k |-> k, v |-> v]

\* bool(x)
Truthy(j) ==
  CASE j.t = "null" -> FALSE
    [] j.t = "bool" -> j.n = 1
    [] j.t = "num" -> j.n # 0
    [] j.t = "str" -> j.s # << >>
    [] j.t = "list" -> j.l # << >>
    [] j.t = "dict" -> j.d # << >>

\* d.get(key, default) of a dict
Get(j, key, default) ==
  LET at == {i \in 1..Len(j.d) : j.d[i].k = key}
  IN  IF at = {} THEN default ELSE j.d[CHOOSE i \in at : \A m \in at : m <= i].v

\* str(n) of an int
RECURSIVE NatStr(_)
NatStr(n) == IF n < 10 THEN << DigitChars[n + 1] >>
             ELSE NatStr(n \div 10) \o << DigitChars[(n % 10) + 1] >>
IntStr(n) == IF n < 0 THEN << "-" >> \o NatStr(0 - n) ELSE NatStr(n)

RECURSIVE FlattenWith(_, _)
FlattenWith(parts, sep) ==
  IF parts = << >> THEN << >>
  ELSE IF Len(parts) = 1 THEN parts[1]
  ELSE parts[1] \o sep \o FlattenWith(Tail(parts), sep)

\* repr(x) and str(x) of a decoded JSON value (a str with no quote or
\* backslash in it)
RECURSIVE PyRepr(_)
PyRepr(j) ==
  CASE j.t = "null" -> S_None
    [] j.t = "bool" -> IF j.n = 1 THEN S_True ELSE S_False
    [] j.t = "num" -> IntStr(j.n) \o [i \in 1..j.e |-> "0"]
    [] j.t = "str" -> << "'" >> \o j.s \o << "'" >>
    [] j.t = "list" ->
         << "[" >> \o FlattenWith([i \in 1..Len(j.l) |-> PyRepr(j.l[i])], << ",", " " >>)
                   \o << "]" >>
    [] j.t = "dict" ->
         << "{" >> \o FlattenWith([i \in 1..Len(j.d) |->
                                     << "'" >> \o j.d[i].k \o << "'", ":", " " >>
                                               \o PyRepr(j.d[i].v)],
                                  << ",", " " >>)
                   \o << "}" >>
PyStr(j) == IF j.t = "str" THEN j.s ELSE PyRepr(j)

\* iter(x): the elements a for loop sees; "TypeError" for a value that is
\* not iterable.  A str yields its characters, a dict its keys.
Iterate(j) ==
  CASE j.t = "list" -> [exc |-> "", val |-> j.l]
    [] j.t = "str" -> [exc |-> "", val |-> [i \in 1..Len(j.s) |-> JStr(<< j.s[i] >>)]]
    [] j.t = "dict" -> [exc |-> "", val |-> [i \in 1..Len(j.d) |-> JStr(j.d[i].k)]]
    [] OTHER -> [exc |-> "TypeError", val |-> << >>]

\* float(s) of a str, for the numerals [-]digits[.digits] (surrounding
\* whitespace allowed); every other str of the model raises ValueError.
\* [ok, val]: val is the value int() truncates the float to.
IsDigits(s) == s # << >> /\ \A i \in 1..Len(s) : s[i] \in Digits
RECURSIVE DigitsValue(_)
DigitsValue(s) ==
  IF s = << >> THEN 0
  ELSE 10 * DigitsValue(SubSeq(s, 1, Len(s) - 1)) + (Ord(s[Len(s)]) - Ord("0"))
NotANumber == [ok |-> FALSE, val |-> 0]
Numeral(whole, frac) ==
  IF /\ whole = << >> \/ IsDigits(whole)
     /\ frac = << >> \/ IsDigits(frac)
     /\ whole # << >> \/ frac # << >>
  THEN [ok |-> TRUE, val |-> DigitsValue(whole)]
  ELSE NotANumber
NumeralAt(s, dots) ==
  IF dots = {} THEN Numeral(s, << >>)
  ELSE IF Cardinality(dots) > 1 THEN NotANumber
  ELSE Numeral(SubSeq(s, 1, (CHOOSE i \in dots : TRUE) - 1),
               SubSeq(s, (CHOOSE i \in dots : TRUE) + 1, Len(s)))
Unsigned(s) == NumeralAt(s, {i \in 1..Len(s) : s[i] = "."})
Negated(r) == [r EXCEPT !.val = 0 - @]
Signed(s) == IF s # << >> /\ Head(s) = "-" THEN Negated(Unsigned(Tail(s))) ELSE Unsigned(s)
ParseNumber(str) == Signed(Strip(str))

\* sys.float_info.max_10_exp: the largest float is 1.797...e308
FloatMax10Exp == 308
\* float(x) of the int m * 10^e raises OverflowError
FloatOverflows(x) ==
  \/ x.e > FloatMax10Exp
  \/ x.e = FloatMax10Exp /\ (x.n > 1 \/ x.n < -1)
\* int(float(x)): [ok, val], ok false when it raises.  Of m * 10^e with
\* e > 0, val is m * 10: it stands for a value of that sign beyond the
\* scale, which is all the clamp sees of it.
IntOfFloat(x) ==
  CASE x.t = "num" /\ x.e > 0 ->
         IF FloatOverflows(x) THEN NotANumber ELSE [ok |-> TRUE, val |-> x.n * 10]
    [] x.t \in {"num", "bool"} -> [ok |-> TRUE, val |-> x.n]
    [] x.t = "str" -> ParseNumber(x.s)
    [] OTHER -> NotANumber
ValueOr(r, default) == IF r.ok THEN r.val ELSE default
\* only min(2, v)
ClampAbove(v) == IF v > 2 THEN 2 ELSE v
\* max(-2, min(2, v))
Clamp(v) == IF v > 2 THEN 2 ELSE IF v < -2 THEN -2 ELSE v

\* _coerce_rating: int(float(x)), the default when that raises, clamped
CoerceRating(x, default) == Clamp(ValueOr(IntOfFloat(x), default))

\* the regexes of SYMBOL_MAP, in dict order: each is an alternation of whole
\* words (\bword\b)
SYMBOL_MAP ==
  << [sym |-> << "B", "T", "C" >>,
      words |-> { << "b", "i", "t", "c", "o", "i", "n" >>, << "b", "t", "c" >> }],
     [sym |-> << "E", "T", "H" >>,
      words |-> { << "e", "t", "h" >>, << "e", "t", "h", "e", "r" >>, << "e", "t", "h", "e", "r", "e", "u", "m" >> }],
     [sym |-> << "S", "O", "L" >>,
      words |-> { << "s", "o", "l", "a", "n", "a" >>, << "s", "o", "l" >> }],
     [sym |-> << "B", "N", "B" >>,
      words |-> { << "b", "n", "b" >> }],
     [sym |-> << "T", "O", "N" >>,
      words |-> { << "t", "o", "n" >>, << "t", "o", "n", "c", "o", "i", "n" >> }] >>

\* re.search(r"\bw\b", t) for a word w of word characters
HasWord(t, w) ==
  \E i \in 1..(Len(t) - Len(w) + 1) :
    /\ SubSeq(t, i, i + Len(w) - 1) = w
    /\ i = 1 \/ ~IsWordChar(t[i - 1])
    /\ i + Len(w) - 1 = Len(t) \/ ~IsWordChar(t[i + Len(w)])

\* _guess_asset_simple: the symbol of the first pattern that matches, or None
GuessAssetSimple(text) ==
  LET t == Lower(text)
      hit == {i \in 1..Len(SYMBOL_MAP) : \E w \in SYMBOL_MAP[i].words : HasWord(t, w)}
  IN  IF hit = {} THEN None
      ELSE SYMBOL_MAP[CHOOSE i \in hit : \A j \in hit : i <= j].sym

\* _snake: strip, lower, runs outside [a-z0-9] become "_", strip "_"
Snake(t) ==
  StripSet(ReplaceRuns(ReplaceRuns(Lower(Strip(t)), {c \in Range(Chars) : ~IsLowerAlnum(c)}, "_"),
                       {"_"}, "_"),
           {"_"})

\* the keyword rules of _normalize_tags, in the order of the code
TagHeuristics ==
  << [tag |-> S_macro,
      keys |-> { << "c", "p", "i" >>,
                 << "f", "e", "d" >>,
                 << "y", "i", "e", "l", "d" >>,
                 << "r", "a", "t", "e", "s" >>,
                 << "i", "n", "f", "l", "a", "t", "i", "o", "n" >>,
                 << "m", "a", "c", "r", "o" >> }],
     [tag |-> S_etf,
      keys |-> { << "e", "t", "f" >>,
                 << "b", "l", "a", "c", "k", "r", "o", "c", "k" >>,
                 << "f", "i", "d", "e", "l", "i", "t", "y" >>,
                 << "i", "n", "f", "l", "o", "w", "s" >>,
                 << "o", "u", "t", "f", "l", "o", "w", "s" >> }],
     [tag |-> S_onchain,
      keys |-> { << "o", "n", "-", "c", "h", "a", "i", "n" >>,
                 << "o", "n", "c", "h", "a", "i", "n" >>,
                 << "a", "d", "d", "r", "e", "s", "s", "e", "s" >>,
                 << "t", "v", "l" >>,
                 << "b", "r", "i", "d", "g", "e" >>,
                 << "s", "t", "a", "k", "i", "n", "g" >> }],
     [tag |-> S_derivatives,
      keys |-> { << "f", "u", "n", "d", "i", "n", "g" >>,
                 << "p", "e", "r", "p" >>,
                 << "p", "e", "r", "p", "s" >>,
                 << "b", "a", "s", "i", "s" >>,
                 << "o", "i" >>,
                 << "o", "p", "e", "n", " ", "i", "n", "t", "e", "r", "e", "s", "t" >>,
                 << "l", "i", "q", "u", "i", "d", "a", "t", "i", "o", "n", "s" >> }],
     [tag |-> S_orderbook,
      keys |-> { << "o", "r", "d", "e", "r", "b", "o", "o", "k" >>,
                 << "o", "r", "d", "e", "r", " ", "b", "o", "o", "k" >>,
                 << "b", "i", "d", " ", "w", "a", "l", "l" >>,
                 << "a", "s", "k", " ", "w", "a", "l", "l" >>,
                 << "l", "i", "q", "u", "i", "d", "i", "t", "y", " ", "w", "a", "l", "l" >>,
                 << "d", "e", "p", "t", "h" >> }],
     [tag |-> S_tokenomics,
      keys |-> { << "u", "n", "l", "o", "c", "k" >>,
                 << "e", "m", "i", "s", "s", "i", "o", "n" >>,
                 << "h", "a", "l", "v", "i", "n", "g" >>,
                 << "s", "u", "p", "p", "l", "y", " ", "s", "c", "h", "e", "d", "u", "l", "e" >> }],
     [tag |-> S_stablecoins,
      keys |-> { << "s", "t", "a", "b", "l", "e", "c", "o", "i", "n" >>,
                 << "u", "s", "d", "t" >>,
                 << "u", "s", "d", "c" >>,
                 << "s", "t", "a", "b", "l", "e", " ", "f", "l", "o", "w" >> }],
     [tag |-> S_dex,
      keys |-> { << "d", "e", "x" >>,
                 << "a", "m", "m" >>,
                 << "l", "p" >>,
                 << "p", "o", "o", "l" >> }],
     [tag |-> S_cex,
      keys |-> { << "c", "e", "x" >>,
                 << "b", "i", "n", "a", "n", "c", "e" >>,
                 << "b", "y", "b", "i", "t" >>,
                 << "o", "k", "x" >>,
                 << "k", "r", "a", "k", "e", "n" >>,
                 << "c", "o", "i", "n", "b", "a", "s", "e" >> }],
     [tag |-> S_narratives,
      keys |-> { << "n", "a", "r", "r", "a", "t", "i", "v", "e" >>,
                 << "s", "e", "c", "t", "o", "r", " ", "r", "o", "t", "a", "t", "i", "o", "n" >>,
                 << "t", "h", "e", "m", "e" >> }] >>

\* seq[:n]
Prefix(s, n) ==
  IF n >= 0 THEN SubSeq(s, 1, IF n < Len(s) THEN n ELSE Len(s))
  ELSE SubSeq(s, 1, IF Len(s) + n > 0 THEN Len(s) + n ELSE 0)

\* the first loop of _normalize_tags: fold, substitute the synonym, keep the
\* first of every tag
\* (mutant: a tag is taken for seen by its folded form, before the synonym
\* is substituted)
RECURSIVE FoldTagsSeenBeforeSynonym(_, _, _)
FoldTagsSeenBeforeSynonym(raw_tags, synonyms, out) ==
  IF raw_tags = << >> THEN out
  ELSE LET t0 == Snake(Head(raw_tags))
           t1 == IF t0 \in DOMAIN synonyms THEN synonyms[t0] ELSE t0
       IN  FoldTagsSeenBeforeSynonym(Tail(raw_tags), synonyms,
                    IF t0 = << >> \/ t0 \in Range(out) THEN out ELSE Append(out, t1))
RECURSIVE FoldTags(_, _, _)
FoldTags(raw_tags, synonyms, out) ==
  IF raw_tags = << >> THEN out
  ELSE LET t0 == Snake(Head(raw_tags))
           t1 == IF t0 \in DOMAIN synonyms THEN synonyms[t0] ELSE t0
       IN  FoldTags(Tail(raw_tags), synonyms,
                    IF t0 = << >> \/ t1 \in Range(out) THEN out ELSE Append(out, t1))

\* the keyword fallback: every rule with a keyword in the lowered text adds
\* its tag, unless it is there already
RECURSIVE ApplyHeuristics(_, _, _)
ApplyHeuristics(rules, txt, out) ==
  IF rules = << >> THEN out
  ELSE LET r == Head(rules)
           fires == \E k \in r.keys : Contains(k, txt)
       IN  ApplyHeuristics(Tail(rules), txt,
                           IF fires /\ r.tag \notin Range(out)
                           THEN Append(out, r.tag) ELSE out)

\* (mutant: the keyword rules are applied to a list that is not empty too)
NormalizeTagsHeuristicsAlways(self, raw_tags, text) ==
  Prefix(ApplyHeuristics(TagHeuristics, Lower(text),
                         FoldTags(raw_tags, self.tag_synonyms, << >>)),
         self.max_tags_per_obs)

\* NewsDataAgent._normalize_tags (the report of non-canonical tags is a log
\* line and changes nothing)
NormalizeTags(self, raw_tags, text) ==
  LET folded == FoldTags(raw_tags, self.tag_synonyms, << >>)
      out == IF Len(folded) < 1
             THEN ApplyHeuristics(TagHeuristics, Lower(text), folded)
             ELSE folded
  IN  Prefix(out, self.max_tags_per_obs)

\* NewsDataAgent._filter_events
\* the (score, ev) pair of one event
Scored(pref, ev) ==
  [score |-> Count(Lower(ev.title \o << " " >> \o ev.content), pref), ev |-> ev]
\* scored.sort(key=lambda x: x[0], reverse=True): a stable sort by falling
\* score
ByScore(scored) == StableSort(scored, [i \in 1..Len(scored) |-> 0 - scored[i].score])
PositiveScore(x) == x.score > 0
\* `[ev for s, ev in scored if s > 0] or events`
HitsOr(hits, events_) ==
  IF hits = << >> THEN events_ ELSE [i \in 1..Len(hits) |-> hits[i].ev]
\* (mutant: the scored list is not sorted)
FilterEventsUnsorted(preference, events_) ==
  IF preference = << >> THEN events_
  ELSE HitsOr(SelectSeq([i \in 1..Len(events_) |->
                           Scored(Lower(preference), events_[i])],
                        PositiveScore),
              events_)
FilterEvents(preference, events_) ==
  IF preference = << >> THEN events_
  ELSE HitsOr(SelectSeq(ByScore([i \in 1..Len(events_) |->
                                   Scored(Lower(preference), events_[i])]),
                        PositiveScore),
              events_)

\* Observation(**kw) as the code calls it: kw is the record of the keyword
\* arguments.  [exc, val]: the TypeError of an unknown keyword, or the object.
NoObservation == Observation(<< >>, None, << >>)
NewObservation(kw) ==
  IF ObservationInitRaises(DOMAIN kw)
  THEN [exc |-> "TypeError", val |-> NoObservation]
  ELSE [exc |-> "",
        val |-> Observation(kw.text,
                            IF "asset" \in DOMAIN kw THEN kw.asset ELSE None,
                            IF "tags" \in DOMAIN kw THEN kw.tags ELSE << >>)]

\* the fallback of _llm_extract_observations: one Observation(text=, asset=,
\* rating=0, tags=["news", "fallback"]) per event
FallbackObservation(ev) ==
  NewObservation([text |-> Strip(ev.title) \o FallbackSuffix,
                  asset |-> GuessAssetSimple(ev.title \o << " " >> \o ev.content),
                  rating |-> 0,
                  tags |-> << S_news, S_fallback >>])

\* a list comprehension / loop that builds observations: the first
\* exception ends it
RECURSIVE Collect(_, _)
Collect(results, out) ==
  IF results = << >> THEN [exc |-> "", val |-> out]
  ELSE IF Head(results).exc # "" THEN [exc |-> Head(results).exc, val |-> << >>]
  ELSE Collect(Tail(results), Append(out, Head(results).val))

\* (item.get(key) or "").strip(): [exc, val]
StripOf(v) ==
  IF ~Truthy(v) THEN [exc |-> "", val |-> << >>]
  ELSE IF v.t = "str" THEN [exc |-> "", val |-> Strip(v.s)]
  ELSE [exc |-> "AttributeError", val |-> << >>]
StrippedField(item, key) == StripOf(Get(item, key, JNull))

\* `value or []`, then iterated: [exc, val]
IterateOrEmpty(v) == IF Truthy(v) THEN Iterate(v) ELSE [exc |-> "", val |-> << >>]

Raised(exc) == [exc |-> exc, val |-> NoObservation]

\* the body of the for loop over the parsed observations, for one item, in
\* the order of its statements: text, asset, tags, rating, the asset guess,
\* the normalized tags, the Observation
ItemObservation(text, asset, rating, tagsN) ==
  NewObservation([text |-> text, asset |-> asset, rating |-> rating,
                  tags |-> IF tagsN = << >> THEN << S_news >> ELSE tagsN])
ItemWithTags(self, item, text, asset, llm_tags) ==
  IF llm_tags.exc # "" THEN Raised(llm_tags.exc)
  ELSE ItemObservation(text,
                       IF asset = << >> THEN GuessAssetSimple(text) ELSE asset,
                       CoerceRating(Get(item, S_rating, JNum(0)), 0),
                       NormalizeTags(self,
                                     [i \in 1..Len(llm_tags.val) |-> PyStr(llm_tags.val[i])],
                                     text))
ItemWithAsset(self, item, text, asset) ==
  IF asset.exc # "" THEN Raised(asset.exc)
  ELSE ItemWithTags(self, item, text, asset.val, IterateOrEmpty(Get(item, S_tags, JNull)))
ItemWithText(self, item, text) ==
  IF text.exc # "" THEN Raised(text.exc)
  ELSE ItemWithAsset(self, item, text.val, StrippedField(item, S_asset))
ExtractItem(self, item) ==
  IF item.t # "dict" THEN Raised("AttributeError")
  ELSE ItemWithText(self, item, StrippedField(item, S_text))

\* the loop over raw = data.get("observations") or []
ExtractAll(self, raw) ==
  IF raw.exc # "" THEN [exc |-> raw.exc, val |-> << >>]
  ELSE Collect([i \in 1..Len(raw.val) |-> ExtractItem(self, raw.val[i])], << >>)

\* NewsDataAgent._llm_extract_observations, given what self.sdk.json_chat
\* did: reply = [raises, data].  [exc, val]: the exception that leaves the
\* method, or the list it returns.
LlmExtractObservations(self, events_, reply) ==
  IF reply.raises
  THEN Collect([i \in 1..Len(events_) |-> FallbackObservation(events_[i])], << >>)
  ELSE IF reply.data.t # "dict" THEN [exc |-> "AttributeError", val |-> << >>]
  ELSE ExtractAll(self, IterateOrEmpty(Get(reply.data, S_observations, JNull)))

\* the neutral observation of run: Observation(text=, rating=0, tags=["news"])
NeutralObservation ==
  NewObservation([text |-> NeutralText, rating |-> 0, tags |-> << S_news >>])

\* -------------------------------------------------- factors/tag_split.py
\* _rough_token_len of the splitter
TS_RoughTokenLen(text) == (WordCount(text) * 13) \div 10

\* _obs_key: f"{(obs.asset or 'NA').upper()}|{text_norm}" with
\* text_norm = re.sub(r"\s+", " ", obs.text or "").strip().lower()
TextNorm(text) == Lower(Strip(ReplaceRuns(text, Whitespace, " ")))
\* (mutant: the key of the agent, asset and text as they are)
ObsKeyRaw(o) == OrElse(o.asset, S_NA) \o S_Bar \o o.text
ObsKey(o) == Upper(OrElse(o.asset, S_NA)) \o S_Bar \o TextNorm(o.text)

\* DEFAULT_TAG_PRIORITY
DEFAULT_TAG_PRIORITY ==
  << S_etf, S_onchain, S_derivatives, S_orderbook, S_tokenomics, S_stablecoins,
     S_protocol, S_ecosystem, S_liquidity, S_narratives, S_macro, S_regulation,
     S_cex, S_dex, S_sentiment, S_news >>

\* the key of a tag that is not in the priority list: 10**9
PrioLast == 1000000000

\* _norm_tag: strip, lower, every run outside [a-z0-9] becomes "_", runs of
\* "_" collapse, leading and trailing "_" go
NotLowerAlnum == {c \in Range(Chars) : ~IsLowerAlnum(c)}
NormTag(t) ==
  StripSet(ReplaceRuns(ReplaceRuns(Lower(Strip(t)), NotLowerAlnum, "_"),
                       {"_"}, "_"),
           {"_"})

\* self._prio_index.get(t, 10**9), with _prio_index = {t: i for i, t in
\* enumerate(priority)}: a tag listed twice keeps its last index
PrioIndex(priority, t) ==
  LET at == {i \in 1..Len(priority) : priority[i] = t}
  IN  IF at = {} THEN PrioLast
      ELSE (CHOOSE i \in at : \A j \in at : j <= i) - 1

\* (mutant: the first tag, the list is not sorted by priority)
ChoosePrimaryTagUnsorted(priority, tags_) ==
  IF tags_ = << >> THEN None
  ELSE LET nonEmpty(t) == t # << >>
           raw == SelectSeq(tags_, nonEmpty)
       IN  IF raw = << >> THEN None ELSE NormTag(raw[1])

\* TagSplitter._choose_primary_tag; None when there is nothing to choose
ChoosePrimaryTag(priority, tags_) ==
  IF tags_ = << >> THEN None
  ELSE LET nonEmpty(t) == t # << >>
           raw == SelectSeq(tags_, nonEmpty)
           tags_n == [i \in 1..Len(raw) |-> NormTag(raw[i])]
           sorted == StableSort(tags_n,
                                [i \in 1..Len(raw) |-> PrioIndex(priority, NormTag(raw[i]))])
       IN  IF sorted = << >> THEN None ELSE sorted[1]

\* the first loop of split: the primary tag of an observation, the fallback
\* tag when _choose_primary_tag returned None or ""
PrimaryOf(config, o) ==
  OrElse(ChoosePrimaryTag(config.priority, o.tags), config.fallback_tag)

\* by_tag is a dict in insertion order: a sequence of [tag, obs_list]
BucketIndex(by_tag_, tag) ==
  IF \E i \in 1..Len(by_tag_) : by_tag_[i].tag = tag
  THEN CHOOSE i \in 1..Len(by_tag_) : by_tag_[i].tag = tag
  ELSE 0

TokensOf(obs_list) == SumSeq([i \in 1..Len(obs_list) |-> TS_RoughTokenLen(obs_list[i].text)])

\* (mutant: the count is compared with <=)
FitsBucketOffByOne(config, bucket, o) ==
  /\ Len(bucket) <= config.max_obs_per_factor
  /\ TokensOf(bucket) + TS_RoughTokenLen(o.text) <= config.max_tokens_factor

\* `len(bucket) < max_obs_per_factor and current_tokens + cand_tokens <=
\* max_tokens_factor`
FitsBucket(config, bucket, o) ==
  /\ Len(bucket) < config.max_obs_per_factor
  /\ TokensOf(bucket) + TS_RoughTokenLen(o.text) <= config.max_tokens_factor

\* the bucket of tag as it is in st, empty when there is none yet
BucketOf(st, tag) ==
  IF BucketIndex(st.by_tag, tag) = 0 THEN << >>
  ELSE st.by_tag[BucketIndex(st.by_tag, tag)].obs_list

\* (mutant: an observation that does not fit its bucket is deferred to the
\* bucket of the fallback tag)
SplitStepDeferred(st, o, tag, config) ==
  LET key == ObsKey(o)
      target == IF FitsBucket(config, BucketOf(st, tag), o) THEN tag
                ELSE config.fallback_tag
      at == BucketIndex(st.by_tag, target)
      withBucket == IF at = 0
                    THEN Append(st.by_tag, [tag |-> target, obs_list |-> << >>])
                    ELSE st.by_tag
      k == IF at = 0 THEN Len(withBucket) ELSE at
  IN  IF key \in st.seen_keys THEN st
      ELSE [by_tag |-> [withBucket EXCEPT ![k].obs_list = Append(@, o)],
            seen_keys |-> st.seen_keys \cup {key}]

\* One iteration of the grouping loop of split on (o, tag).
\* st = [by_tag, seen_keys].
SplitStep(st, o, tag, config) ==
  LET key == ObsKey(o)
  IN  IF key \in st.seen_keys THEN st
      ELSE LET at == BucketIndex(st.by_tag, tag)
               \* by_tag.setdefault(tag, [])
               withBucket == IF at = 0
                             THEN Append(st.by_tag, [tag |-> tag, obs_list |-> << >>])
                             ELSE st.by_tag
               k == IF at = 0 THEN Len(withBucket) ELSE at
           IN  IF FitsBucket(config, withBucket[k].obs_list, o)
               THEN [by_tag |-> [withBucket EXCEPT ![k].obs_list = Append(@, o)],
                     seen_keys |-> st.seen_keys \cup {key}]
               ELSE [by_tag |-> withBucket, seen_keys |-> st.seen_keys]

\* (mutant: the factor is rebuilt, without its provenance)
UnsplitRebuilt(fac) ==
  << TextualFactor(fac.date, fac.agent_name, fac.observations,
                   TokensOf(fac.observations), fac.preference, << >>) >>

\* `return [factor]` of a disabled splitter
Unsplit(fac) == << fac >>

\* (mutant: length_tokens is copied from the source factor)
BuildFactorsSourceLength(fac, by_tag_) ==
  LET nonEmpty(b) == b.obs_list # << >>
      full == SelectSeq(by_tag_, nonEmpty)
  IN  [i \in 1..Len(full) |->
         TextualFactor(fac.date, fac.agent_name \o S_Hash \o full[i].tag,
                       full[i].obs_list, fac.length_tokens, full[i].tag,
                       fac.raw_sources)]

\* (mutant: the `if not obs_list: continue` is missing)
BuildFactorsKeepEmpty(fac, by_tag_) ==
  [i \in 1..Len(by_tag_) |->
     TextualFactor(fac.date, fac.agent_name \o S_Hash \o by_tag_[i].tag,
                   by_tag_[i].obs_list, TokensOf(by_tag_[i].obs_list),
                   by_tag_[i].tag, fac.raw_sources)]

\* the loop that builds one TextualFactor per non-empty bucket, in the
\* insertion order of by_tag
BuildFactors(fac, by_tag_) ==
  LET nonEmpty(b) == b.obs_list # << >>
      full == SelectSeq(by_tag_, nonEmpty)
  IN  [i \in 1..Len(full) |->
         TextualFactor(fac.date,
                       fac.agent_name \o S_Hash \o full[i].tag,
                       full[i].obs_list,
                       TokensOf(full[i].obs_list),
                       full[i].tag,
                       fac.raw_sources)]

\* (mutant: the list is returned in the insertion order of by_tag)
SortFactorsInsertionOrder(fs) == fs

\* out_factors.sort(key=lambda x: x.agent_name): the key of a factor is the
\* number of factors whose name is smaller as a str
NameRank(fs, i) ==
  Cardinality({j \in 1..Len(fs) : StrLess(fs[j].agent_name, fs[i].agent_name)})
SortFactors(fs) == StableSort(fs, [i \in 1..Len(fs) |-> NameRank(fs, i)])

\* ------------------------------------------------------------ the inputs
TxtAB == << "a", " ", "b" >>
TxtAB2 == << "A", " ", " ", "b" >>
TxtC == << "c" >>
TxtBCD == << "b", " ", "c", " ", "d" >>

\* The observations the deduplicator and the splitter are given: equal raw
\* keys with different tags (1, 2), equal normalized keys with different raw
\* text and asset case (1, 3), no asset, no tags, a tag that normalizes to
\* nothing, an empty text.
ObsPool ==
  { Observation(TxtAB, S_BTC, << S_news, S_etf >>),
    Observation(TxtAB, S_BTC, << S_macro >>),
    Observation(TxtAB2, S_btc, << S_News >>),
    Observation(TxtC, None, << >>),
    Observation(TxtBCD, None, << S_bangs, S_custom >>),
    Observation(<< >>, S_ETH, << S_ETF, S_news >>) }

RECURSIVE SeqsUpTo(_, _)
SeqsUpTo(S, n) ==
  IF n = 0 THEN {<< >>}
  ELSE LET shorter == SeqsUpTo(S, n - 1)
       IN  shorter \cup {Append(s, x) : s \in shorter, x \in S}

ObsLists == SeqsUpTo(ObsPool, MaxObsLen)

\* data/sources/base.py Event, reduced to the fields the agent reads
Event(title, content) == [title |-> title, content |-> content]
TitleEtf == << "E", "T", "F", " ", "e", "t", "f" >>
TitleBtc == << "b", "t", "c", " ", "u", "p" >>
SampleEvents == << Event(TitleEtf, S_etf), Event(TitleBtc, << >>) >>

\* a configured priority that is not the default one: news before etf
AltPriority == << S_news, S_etf, S_custom >>
Priorities == {DEFAULT_TAG_PRIORITY, AltPriority}

\* the factors split is given: as run builds them (length_tokens is the sum
\* over the observations), before any limit of the splitter is applied
InputFactor(obs_list) ==
  TextualFactor("day", S_NewsDataAgent, obs_list,
                SumSeq([i \in 1..Len(obs_list) |-> RoughTokenLen(obs_list[i].text)]),
                None, SampleEvents)

SplitConfigs ==
  [enabled : BOOLEAN, priority : Priorities,
   max_obs_per_factor : 0..MaxCount, max_tokens_factor : 0..MaxBudget,
   fallback_tag : {S_misc}]

EventPool == {Event(TitleEtf, S_etf), Event(TitleBtc, << >>)}
EventLists == SeqsUpTo(EventPool, MaxEvents)
\* the batches _filter_events is given: "etf" three times, once, once in
\* another event, never
TitleEtfUp == << "e", "t", "f", " ", "u", "p" >>
TitleAnEtf == << "a", "n", " ", "E", "T", "F" >>
ScoredEventPool ==
  {Event(TitleEtf, S_etf), Event(TitleEtfUp, << >>), Event(TitleAnEtf, << >>),
   Event(TitleBtc, << >>)}
ScoredEventLists == SeqsUpTo(ScoredEventPool, MaxScored)

Agents ==
  [max_obs : 0..MaxCount, max_tokens_factor : 0..MaxBudget,
   preference : {None, S_ETF, S_custom},
   tag_synonyms : {[x \in {S_news} |-> S_macro]},
   max_tags_per_obs : {2}]

\* what the external call can do: raise, or return a decoded JSON value
Item(text, asset, rating, tags_) ==
  JDict(<< KV(S_text, text), KV(S_asset, asset), KV(S_symbols, JList(<< >>)),
           KV(S_rating, rating), KV(S_tags, tags_) >>)
GoodItem == Item(JStr(<< " ", "b", "t", "c", " ", "u", "p" >>), JStr(S_BTC), JNum(1),
                 JList(<< JStr(S_ETF), JStr(S_news) >>))
Reply(data) == [raises |-> FALSE, data |-> data]
Observations(items) == JDict(<< KV(S_observations, items) >>)
LLMReplies ==
  << [raises |-> TRUE, data |-> JNull],
     Reply(Observations(JList(<< >>))),
     Reply(JDict(<< >>)),
     Reply(Observations(JNull)),
     Reply(JList(<< >>)),
     Reply(JStr(S_None)),
     Reply(JNull),
     Reply(Observations(JNum(5))),
     Reply(Observations(JStr(S_etf))),
     Reply(Observations(JList(<< JStr(S_etf) >>))),
     Reply(Observations(JList(<< GoodItem >>))),
     Reply(Observations(JList(<< GoodItem, GoodItem >>))),
     Reply(Observations(JList(<< Item(JNum(5), JStr(S_BTC), JNum(1), JList(<< >>)) >>))),
     Reply(Observations(JList(<< Item(JStr(TxtC), JNum(7), JNum(1), JList(<< >>)) >>))),
     Reply(Observations(JList(<< Item(JStr(TxtC), JNull, JStr(S_news), JNull) >>))),
     Reply(Observations(JList(<< JDict(<< KV(S_text, JStr(TxtC)) >>) >>))),
     Reply(Observations(JList(<< Item(JStr(TxtC), JNull, JNum(9),
                                      JList(<< JNum(5), JNull >>)) >>))),
     Reply(Observations(JList(<< Item(JStr(TxtC), JNull, JNum(0), JNum(5)) >>))) >>

\* raw tags: canonical, upper case, padded, nothing but punctuation, unknown
\* to the priority list, empty
RawTagPool == {S_etf, S_ETF, S_news, S_News, S_macro, S_custom, S_bangs, << >>}
TagLists == SeqsUpTo(RawTagPool, MaxTagLen)

\* what _normalize_tags is given: tags equal after folding, a synonym and
\* its canonical tag, a tag that folds to nothing; texts with no keyword,
\* with keywords of two rules, of one rule
NormTagPool == {S_etf, S_ETF, S_news, S_macro, S_bangs}
NormTagLists == SeqsUpTo(NormTagPool, MaxRawTags)
TxtCpiEtf == << "c", "p", "i", " ", "e", "t", "f" >>
NormTexts == {<< >>, TxtCpiEtf, S_dex}
\* tags.synonyms of the configuration: a synonym of a canonical tag; a chain;
\* a value that is not folded; a tag of the keyword rules as a synonym
SynonymMaps ==
  << (S_news :> S_macro),
     (S_news :> S_macro) @@ (S_macro :> S_etf),
     (S_news :> S_ETF),
     (S_etf :> S_macro) >>
NormAgent(synonyms, max_tags) ==
  [max_obs |-> MaxCount, max_tokens_factor |-> MaxBudget, preference |-> None,
   tag_synonyms |-> synonyms, max_tags_per_obs |-> max_tags]

\* the texts whose token length is estimated: n words, with one blank, two
\* blanks or a line break between them, and blanks around them or not
RECURSIVE Joined(_, _)
Joined(n, sep) ==
  IF n = 0 THEN << >>
  ELSE IF n = 1 THEN << "w" >> ELSE Joined(n - 1, sep) \o sep \o << "w" >>
Separators == {<< " " >>, << " ", " " >>, << "\n" >>}
Margins == {<< >>, << " " >>}

\* ------------------------------------------------------------ the state
VARIABLES
  pc,            \* where the modelled call stands
  agent,         \* NewsDataAgent: [max_obs, max_tokens_factor, preference]
  observations,  \* the argument of _dedup_and_limit
  pos,           \* index of the next element of the for loop
  seen, kept, total,   \* the locals of _dedup_and_limit
  brk,           \* the loop of _dedup_and_limit has hit a break
  cfg,           \* TagSplitter.cfg: the TagSplitConfig
  factor,        \* the argument of split
  assignments,   \* split: the (obs, primary tag) pairs
  spos,          \* split: index of the next pair of the grouping loop
  by_tag,        \* split: the buckets, in insertion order
  seen_keys,     \* split: the keys of the observations placed so far
  out_factors,   \* split: the returned list
  tags,          \* the argument of _choose_primary_tag
  primary,       \* its result
  events,        \* the argument of run
  llm,           \* what self.sdk.json_chat does when it is called
  llm_calls,     \* how often it has been called
  filtered,      \* run: the filtered events
  obs,           \* run: the extracted, then limited, observations
  result,        \* run: [exc, factor], the exception raised or the factor returned
  nt_raw,        \* the argument raw_tags of _normalize_tags
  nt_text,       \* its argument text
  nt_out,        \* the list it returned
  nt_again,      \* the list it returned when it was given nt_out
  tl_words,      \* the number of words the text below was written with
  tl_text,       \* the argument of _rough_token_len
  tl_agent,      \* what _rough_token_len of agents/news_agent.py returned
  tl_split,      \* what _rough_token_len of factors/tag_split.py returned
  rt_x,          \* the argument of _coerce_rating
  rt_out,        \* what it returned
  session,       \* CoinDeskSource.session: 0 for None, k for the k-th Session made
  live_sessions, \* the Session objects made and not closed
  requests_sent, \* how many HTTP requests session.get has issued
  src_calls,     \* the calls made on the source so far: [op, start, exc]
  now,           \* time.time()
  ttl_seconds,   \* the argument of ttl_cache
  entry,         \* the cache file of the key: [kind, result, timestamp]
  func_calls,    \* how often the wrapped function has been invoked
  cache_call     \* the last call of the wrapper: [n, at, cached, result, exc, write_error]

dedupVars == << observations, pos, seen, kept, total, brk >>
splitVars == << factor, assignments, spos, by_tag, seen_keys, out_factors >>
tagVars == << tags, primary >>
normVars == << nt_raw, nt_text, nt_out, nt_again >>
tokVars == << tl_words, tl_text, tl_agent, tl_split >>
runVars == << events, llm, llm_calls, filtered, obs, result >>
rateVars == << rt_x, rt_out >>
srcVars == << session, live_sessions, requests_sent, src_calls >>
cacheVars == << now, ttl_seconds, entry, func_calls, cache_call >>
vars == << pc, agent, cfg, dedupVars, splitVars, tagVars, normVars, tokVars, runVars,
           rateVars, srcVars, cacheVars >>

\* the parts of the state a specification does not use
NoAgent == [max_obs |-> 0, max_tokens_factor |-> 0, preference |-> None,
            tag_synonyms |-> << >>, max_tags_per_obs |-> 0]
NoResult == [exc |-> "", factor |-> InputFactor(<< >>)]
IdleRun ==
  /\ events = << >> /\ llm = LLMReplies[1] /\ llm_calls = 0
  /\ filtered = << >> /\ obs = << >> /\ result = NoResult
NoConfig == [enabled |-> FALSE, priority |-> << >>, max_obs_per_factor |-> 0,
             max_tokens_factor |-> 0, fallback_tag |-> None]
IdleDedup ==
  /\ observations = << >> /\ pos = 1
  /\ seen = {} /\ kept = << >> /\ total = 0 /\ brk = FALSE
IdleSplit ==
  /\ factor = InputFactor(<< >>)
  /\ assignments = << >> /\ spos = 1 /\ by_tag = << >> /\ seen_keys = {}
  /\ out_factors = << >>
IdleTags == tags = << >> /\ primary = None
IdleNorm == nt_raw = << >> /\ nt_text = << >> /\ nt_out = << >> /\ nt_again = << >>
IdleTok == tl_words = 0 /\ tl_text = << >> /\ tl_agent = 0 /\ tl_split = 0
IdleRate == rt_x = JNull /\ rt_out = 0
IdleSource ==
  session = 0 /\ live_sessions = {} /\ requests_sent = 0 /\ src_calls = << >>
\* the cache file: none, a pickled {"result", "timestamp"}, or bytes that
\* do not load as one
NoEntry == [kind |-> "none", result |-> 0, timestamp |-> 0]
Stored(res, ts) == [kind |-> "stored", result |-> res, timestamp |-> ts]
Unreadable == [kind |-> "unreadable", result |-> 0, timestamp |-> 0]
NoCall == [n |-> 0, at |-> 0, cached |-> FALSE, result |-> 0, exc |-> "",
           write_error |-> FALSE]
IdleCache ==
  now = 0 /\ ttl_seconds = 0 /\ entry = NoEntry /\ func_calls = 0 /\ cache_call = NoCall

\* ------------------------------------------- NewsDataAgent._dedup_and_limit
DedupState == [seen |-> seen, kept |-> kept, total |-> total, brk |-> brk]

InitDedup ==
  /\ pc = "dedup"
  /\ agent \in {a \in Agents : a.preference = None}
  /\ observations \in ObsLists
  /\ pos = 1
  /\ seen = {} /\ kept = << >> /\ total = 0 /\ brk = FALSE
  /\ cfg = NoConfig /\ IdleSplit /\ IdleTags /\ IdleNorm /\ IdleTok /\ IdleRun /\ IdleRate /\ IdleSource /\ IdleCache

DedupApply ==
  LET st == DedupStep(DedupState, observations[pos],
                      agent.max_obs, agent.max_tokens_factor)
  IN  /\ seen' = st.seen /\ kept' = st.kept /\ total' = st.total /\ brk' = st.brk
      /\ pos' = pos + 1
      /\ UNCHANGED << pc, agent, cacheVars, srcVars, rateVars, observations, cfg, splitVars, tagVars, normVars, tokVars, runVars >>

DedupLooping == pc = "dedup" /\ ~brk /\ pos <= Len(observations)

\* `if key in seen: continue`
DedupSkipDuplicate ==
  /\ DedupLooping
  /\ DedupKey(observations[pos]) \in seen
  /\ DedupApply

\* `if total + cand > self.max_tokens_factor: break`
DedupTokenBreak ==
  /\ DedupLooping
  /\ DedupKey(observations[pos]) \notin seen
  /\ total + RoughTokenLen(observations[pos].text) > agent.max_tokens_factor
  /\ DedupApply

\* `kept.append(obs)`, and the `break` at max_obs
DedupKeep ==
  /\ DedupLooping
  /\ DedupKey(observations[pos]) \notin seen
  /\ total + RoughTokenLen(observations[pos].text) <= agent.max_tokens_factor
  /\ DedupApply

\* `return kept`
DedupReturn ==
  /\ pc = "dedup"
  /\ brk \/ pos > Len(observations)
  /\ pc' = "dedup_done"
  /\ UNCHANGED << agent, cacheVars, srcVars, rateVars, dedupVars, cfg, splitVars, tagVars, normVars, tokVars, runVars >>

NextDedup == DedupSkipDuplicate \/ DedupTokenBreak \/ DedupKeep \/ DedupReturn

SpecDedup == InitDedup /\ [][NextDedup]_vars

\* ------------------------------------------------------ TagSplitter.split
InitSplit ==
  /\ pc = "split"
  /\ cfg \in SplitConfigs
  /\ factor \in {InputFactor(l) : l \in ObsLists}
  /\ assignments = << >> /\ spos = 1 /\ by_tag = << >> /\ seen_keys = {}
  /\ out_factors = << >>
  /\ agent = NoAgent /\ IdleDedup /\ IdleTags /\ IdleNorm /\ IdleTok /\ IdleRun /\ IdleRate /\ IdleSource /\ IdleCache

\* `if not self.cfg.enabled: return [factor]`
SplitDisabled ==
  /\ pc = "split" /\ ~cfg.enabled
  /\ out_factors' = Unsplit(factor)
  /\ pc' = "split_done"
  /\ UNCHANGED << agent, cacheVars, srcVars, rateVars, cfg, dedupVars, tagVars, normVars, tokVars, runVars,
                  factor, assignments, spos, by_tag, seen_keys >>

\* the first loop: every observation gets its primary tag
SplitAssign ==
  /\ pc = "split" /\ cfg.enabled
  /\ assignments' = [i \in 1..Len(factor.observations) |->
                       [obs |-> factor.observations[i],
                        tag |-> PrimaryOf(cfg, factor.observations[i])]]
  /\ pc' = "group"
  /\ UNCHANGED << agent, cacheVars, srcVars, rateVars, cfg, dedupVars, tagVars, normVars, tokVars, runVars,
                  factor, spos, by_tag, seen_keys, out_factors >>

SplitApply ==
  LET st == SplitStep([by_tag |-> by_tag, seen_keys |-> seen_keys],
                      assignments[spos].obs, assignments[spos].tag, cfg)
  IN  /\ by_tag' = st.by_tag /\ seen_keys' = st.seen_keys
      /\ spos' = spos + 1
      /\ UNCHANGED << pc, agent, cacheVars, srcVars, rateVars, cfg, dedupVars, tagVars, normVars, tokVars, runVars,
                      factor, assignments, out_factors >>

SplitLooping == pc = "group" /\ spos <= Len(assignments)

CurrentBucket ==
  LET at == BucketIndex(by_tag, assignments[spos].tag)
  IN  IF at = 0 THEN << >> ELSE by_tag[at].obs_list

\* `if key in seen_keys: continue`
SplitSkipSeen ==
  /\ SplitLooping
  /\ ObsKey(assignments[spos].obs) \in seen_keys
  /\ SplitApply

\* the observation fits its bucket: `bucket.append(obs); seen_keys.add(key)`
SplitPlace ==
  /\ SplitLooping
  /\ ObsKey(assignments[spos].obs) \notin seen_keys
  /\ FitsBucket(cfg, CurrentBucket, assignments[spos].obs)
  /\ SplitApply

\* the observation does not fit: nothing but the setdefault happens
SplitDrop ==
  /\ SplitLooping
  /\ ObsKey(assignments[spos].obs) \notin seen_keys
  /\ ~FitsBucket(cfg, CurrentBucket, assignments[spos].obs)
  /\ SplitApply

\* the factors are built, sorted and returned
SplitBuild ==
  /\ pc = "group" /\ spos > Len(assignments)
  /\ out_factors' = SortFactors(BuildFactors(factor, by_tag))
  /\ pc' = "split_done"
  /\ UNCHANGED << agent, cacheVars, srcVars, rateVars, cfg, dedupVars, tagVars, normVars, tokVars, runVars,
                  factor, assignments, spos, by_tag, seen_keys >>

NextSplit ==
  SplitDisabled \/ SplitAssign \/ SplitSkipSeen \/ SplitPlace \/ SplitDrop \/ SplitBuild

SpecSplit == InitSplit /\ [][NextSplit]_vars

\* ------------------------------------- TagSplitter._choose_primary_tag
InitTags ==
  /\ pc = "tags"
  /\ cfg \in {c \in SplitConfigs : c.enabled /\ c.max_obs_per_factor = MaxCount
                                  /\ c.max_tokens_factor = MaxBudget}
  /\ tags \in TagLists
  /\ primary = None
  /\ agent = NoAgent /\ IdleDedup /\ IdleSplit /\ IdleRun /\ IdleNorm /\ IdleTok /\ IdleRate /\ IdleSource /\ IdleCache

ChoosePrimary ==
  /\ pc = "tags"
  /\ primary' = ChoosePrimaryTag(cfg.priority, tags)
  /\ pc' = "chosen"
  /\ UNCHANGED << agent, cacheVars, srcVars, rateVars, cfg, dedupVars, splitVars, runVars, normVars, tokVars, tags >>

NextTags == ChoosePrimary

SpecTags == InitTags /\ [][NextTags]_vars

\* ------------------------------------------ NewsDataAgent._normalize_tags
InitNormalize ==
  /\ pc = "norm"
  /\ \E i \in 1..Len(SynonymMaps), m \in (0 - 1)..MaxTagsPerObs :
       agent = NormAgent(SynonymMaps[i], m)
  /\ nt_raw \in NormTagLists
  /\ nt_text \in NormTexts
  /\ nt_out = << >> /\ nt_again = << >>
  /\ cfg = NoConfig /\ IdleDedup /\ IdleSplit /\ IdleTags /\ IdleRun /\ IdleTok /\ IdleRate /\ IdleSource /\ IdleCache

\* `self._normalize_tags(raw_tags, text)`
Normalize ==
  /\ pc = "norm"
  /\ nt_out' = NormalizeTags(agent, nt_raw, nt_text)
  /\ pc' = "normed"
  /\ UNCHANGED << agent, cacheVars, srcVars, rateVars, cfg, dedupVars, splitVars, tagVars, tokVars, runVars,
                  nt_raw, nt_text, nt_again >>

\* the same call on the list the first call returned
NormalizeAgain ==
  /\ pc = "normed"
  /\ nt_again' = NormalizeTags(agent, nt_out, nt_text)
  /\ pc' = "renormed"
  /\ UNCHANGED << agent, cacheVars, srcVars, rateVars, cfg, dedupVars, splitVars, tagVars, tokVars, runVars,
                  nt_raw, nt_text, nt_out >>

NextNormalize == Normalize \/ NormalizeAgain

SpecNormalize == InitNormalize /\ [][NextNormalize]_vars

\* ------------------------------------------------------ _rough_token_len
InitTokens ==
  /\ pc = "tokens"
  /\ tl_words \in 0..MaxWords
  /\ \E sep \in Separators, lead \in Margins, trail \in Margins :
       tl_text = lead \o Joined(tl_words, sep) \o trail
  /\ tl_agent = 0 /\ tl_split = 0
  /\ agent = NoAgent /\ cfg = NoConfig
  /\ IdleDedup /\ IdleSplit /\ IdleTags /\ IdleNorm /\ IdleRun /\ IdleRate /\ IdleSource /\ IdleCache

\* both modules' _rough_token_len(text)
RoughTokenLens ==
  /\ pc = "tokens"
  /\ tl_agent' = RoughTokenLen(tl_text)
  /\ tl_split' = TS_RoughTokenLen(tl_text)
  /\ pc' = "tokens_done"
  /\ UNCHANGED << agent, cacheVars, srcVars, rateVars, cfg, dedupVars, splitVars, tagVars, normVars, runVars,
                  tl_words, tl_text >>

NextTokens == RoughTokenLens

SpecTokens == InitTokens /\ [][NextTokens]_vars

\* ------------------------------------------- NewsDataAgent._filter_events
InitFilter ==
  /\ pc = "filter"
  /\ agent \in {a \in Agents : a.max_obs = MaxCount /\ a.max_tokens_factor = MaxBudget}
  /\ events \in ScoredEventLists
  /\ llm = LLMReplies[1] /\ llm_calls = 0
  /\ filtered = << >> /\ obs = << >> /\ result = NoResult
  /\ cfg = NoConfig /\ IdleDedup /\ IdleSplit /\ IdleTags /\ IdleNorm /\ IdleTok /\ IdleRate /\ IdleSource /\ IdleCache

\* `return filtered` (or `return events`)
FilterReturn ==
  /\ pc = "filter"
  /\ filtered' = FilterEvents(agent.preference, events)
  /\ pc' = "filter_done"
  /\ UNCHANGED << agent, cacheVars, srcVars, rateVars, cfg, dedupVars, splitVars, tagVars, normVars, tokVars,
                  events, llm, llm_calls, obs, result >>

NextFilter == FilterReturn

SpecFilter == InitFilter /\ [][NextFilter]_vars

\* ------------------------------------------------------ NewsDataAgent.run
InitRun ==
  /\ pc = "run"
  /\ agent \in Agents
  /\ events \in EventLists
  /\ \E i \in 1..Len(LLMReplies) : llm = LLMReplies[i]
  /\ llm_calls = 0
  /\ filtered = << >> /\ obs = << >> /\ result = NoResult
  /\ cfg = NoConfig /\ IdleDedup /\ IdleSplit /\ IdleTags /\ IdleNorm /\ IdleTok /\ IdleRate /\ IdleSource /\ IdleCache

\* `filtered = self._filter_events(events)`
RunFilter ==
  /\ pc = "run"
  /\ filtered' = FilterEvents(agent.preference, events)
  /\ pc' = "filtered"
  /\ UNCHANGED << agent, cacheVars, srcVars, rateVars, cfg, dedupVars, splitVars, tagVars, normVars, tokVars,
                  events, llm, llm_calls, obs, result >>

\* `if not filtered:` the neutral factor is built and returned
RunNeutral ==
  /\ pc = "filtered" /\ filtered = << >>
  /\ LET empty == NeutralObservation
     IN  result' = IF empty.exc # ""
                   THEN [exc |-> empty.exc, factor |-> NoResult.factor]
                   ELSE [exc |-> "",
                         factor |-> TextualFactor("day", S_NewsDataAgent, << empty.val >>,
                                                  RoughTokenLen(empty.val.text),
                                                  agent.preference, << >>)]
  /\ pc' = "run_done"
  /\ UNCHANGED << agent, cacheVars, srcVars, rateVars, cfg, dedupVars, splitVars, tagVars, normVars, tokVars,
                  events, llm, llm_calls, filtered, obs >>

\* `obs = self._llm_extract_observations(date, filtered)`: one external call
RunExtract ==
  /\ pc = "filtered" /\ filtered # << >>
  /\ llm_calls' = llm_calls + 1
  /\ LET got == LlmExtractObservations(agent, filtered, llm)
     IN  /\ obs' = got.val
         /\ IF got.exc # ""
            THEN result' = [exc |-> got.exc, factor |-> NoResult.factor]
                 /\ pc' = "run_done"
            ELSE result' = result /\ pc' = "extracted"
  /\ UNCHANGED << agent, cacheVars, srcVars, rateVars, cfg, dedupVars, splitVars, tagVars, normVars, tokVars, events, llm, filtered >>

\* `obs = self._dedup_and_limit(obs)`, the factor is built and returned
RunBuild ==
  /\ pc = "extracted"
  /\ LET limited == DedupAndLimit(obs, agent.max_obs, agent.max_tokens_factor)
     IN  /\ obs' = limited
         /\ result' = [exc |-> "",
                       factor |-> TextualFactor("day", S_NewsDataAgent, limited,
                                     SumSeq([i \in 1..Len(limited) |->
                                               RoughTokenLen(limited[i].text)]),
                                     agent.preference, filtered)]
  /\ pc' = "run_done"
  /\ UNCHANGED << agent, cacheVars, srcVars, rateVars, cfg, dedupVars, splitVars, tagVars, normVars, tokVars,
                  events, llm, llm_calls, filtered >>

NextRun == RunFilter \/ RunNeutral \/ RunExtract \/ RunBuild

SpecRun == InitRun /\ [][NextRun]_vars

\* --------------------------------------------------------- _coerce_rating
MaxRating == 6
\* ints around the scale, and ints around the range of float
Mantissas == {-2, -1, 1, 2}
FloatExps == {1, FloatMax10Exp - 1, FloatMax10Exp, FloatMax10Exp + 1}
\* strs float() takes, and strs it raises ValueError for
NumeralTexts ==
  << << "2" >>, << "-", "3" >>, << " ", "1", " " >>, << "1", ".", "9" >>,
     << "-", "1", ".", "9" >>, << "7" >>, << "-", "0", ".", "5" >>,
     << ".", "5" >>, << "1", "." >>, << "0" >>, << "-", "2" >>,
     << "3", ".", "0" >>, << "\n", "-", "7" >> >>
NonNumeralTexts ==
  << << >>, << " " >>, << "a", "b", "c" >>, << "-" >>, << "." >>,
     << "1", ".", "2", ".", "3" >>, << "1", " ", "2" >>, << "-", "-", "1" >>,
     << "2", "x" >>, << "-", "." >>, S_None >>
RatingValues ==
  {JNum(n) : n \in (0 - MaxRating)..MaxRating}
    \cup {JPow(m, e) : m \in Mantissas, e \in FloatExps}
    \cup {JStr(NumeralTexts[i]) : i \in 1..Len(NumeralTexts)}
    \cup {JStr(NonNumeralTexts[i]) : i \in 1..Len(NonNumeralTexts)}
    \cup {JNull, JBool(TRUE), JBool(FALSE), JList(<< >>), JList(<< JNum(1) >>),
          JDict(<< >>), JDict(<< KV(S_rating, JNum(1)) >>)}

InitRating ==
  /\ pc = "rate"
  /\ rt_x \in RatingValues
  /\ rt_out = 0
  /\ agent = NoAgent /\ cfg = NoConfig
  /\ IdleDedup /\ IdleSplit /\ IdleTags /\ IdleNorm /\ IdleTok /\ IdleRun /\ IdleSource /\ IdleCache

\* _coerce_rating(x), default left at 0
Rate ==
  /\ pc = "rate"
  /\ rt_out' = CoerceRating(rt_x, 0)
  /\ pc' = "rated"
  /\ UNCHANGED << agent, cacheVars, srcVars, cfg, dedupVars, splitVars, tagVars, normVars, tokVars, runVars,
                  rt_x >>

NextRating == Rate

SpecRating == InitRating /\ [][NextRating]_vars

\* ---------------------------------------------------------- CoinDeskSource
MaxCalls == 5
\* the arguments fetch is given for start: None, a timestamp, the float nan
FetchStarts == {"None", "ts", "nan"}
\* _as_unix_ts(x): int(x) of a float nan raises ValueError, outside any try
AsUnixTsRaises(x) == IF x = "nan" THEN "ValueError" ELSE ""
\* what session.get and raise_for_status do: a response, an error status,
\* a failure of the transport
Responses == {"", "HTTPError", "RequestException"}
Call(op, start, exc) == [op |-> op, start |-> start, exc |-> exc]
CanCall == pc = "source" /\ Len(src_calls) < MaxCalls
\* requests.Session(): a new object each time
NewSession == 1 + Cardinality({i \in 1..Len(src_calls) : src_calls[i].op = "connect"})

\* connect(): a new Session; the one held before, if any, is dropped unclosed
Connect ==
  /\ CanCall
  /\ session' = NewSession
  /\ live_sessions' = live_sessions \cup {NewSession}
  /\ src_calls' = Append(src_calls, Call("connect", "None", ""))
  /\ UNCHANGED << pc, agent, cacheVars, cfg, dedupVars, splitVars, tagVars, normVars, tokVars,
                  runVars, rateVars, requests_sent >>

\* close() that leaves self.session as it is
CloseKeepsSession ==
  /\ CanCall
  /\ live_sessions' = IF session # 0 THEN live_sessions \ {session} ELSE live_sessions
  /\ src_calls' = Append(src_calls, Call("close", "None", ""))
  /\ UNCHANGED << pc, agent, cacheVars, cfg, dedupVars, splitVars, tagVars, normVars, tokVars,
                  runVars, rateVars, session, requests_sent >>

\* close(): `if self.session:` close it and set self.session = None
Close ==
  /\ CanCall
  /\ IF session # 0
     THEN live_sessions' = live_sessions \ {session} /\ session' = 0
     ELSE UNCHANGED << session, live_sessions >>
  /\ src_calls' = Append(src_calls, Call("close", "None", ""))
  /\ UNCHANGED << pc, agent, cacheVars, cfg, dedupVars, splitVars, tagVars, normVars, tokVars,
                  runVars, rateVars, requests_sent >>

\* fetch(start, end): `if not self.session: raise RuntimeError`
FetchNoSession ==
  /\ CanCall
  /\ session = 0
  /\ \E start \in FetchStarts :
       src_calls' = Append(src_calls, Call("fetch", start, "RuntimeError"))
  /\ UNCHANGED << pc, agent, cacheVars, cfg, dedupVars, splitVars, tagVars, normVars, tokVars,
                  runVars, rateVars, session, live_sessions, requests_sent >>

\* fetch(start, end): _build_params raises before the request
FetchBadParams ==
  /\ CanCall
  /\ session # 0
  /\ \E start \in FetchStarts :
       /\ AsUnixTsRaises(start) # ""
       /\ src_calls' = Append(src_calls, Call("fetch", start, AsUnixTsRaises(start)))
  /\ UNCHANGED << pc, agent, cacheVars, cfg, dedupVars, splitVars, tagVars, normVars, tokVars,
                  runVars, rateVars, session, live_sessions, requests_sent >>

\* fetch(start, end): session.get, then the json returned or the error
\* raised again
FetchRequest ==
  /\ CanCall
  /\ session # 0
  /\ \E start \in FetchStarts, exc \in Responses :
       /\ AsUnixTsRaises(start) = ""
       /\ src_calls' = Append(src_calls, Call("fetch", start, exc))
  /\ requests_sent' = requests_sent + 1
  /\ UNCHANGED << pc, agent, cacheVars, cfg, dedupVars, splitVars, tagVars, normVars, tokVars,
                  runVars, rateVars, session, live_sessions >>

InitSource ==
  /\ pc = "source"
  /\ session = 0 /\ live_sessions = {} /\ requests_sent = 0 /\ src_calls = << >>
  /\ agent = NoAgent /\ cfg = NoConfig
  /\ IdleDedup /\ IdleSplit /\ IdleTags /\ IdleNorm /\ IdleTok /\ IdleRun /\ IdleRate /\ IdleCache

NextSource == Connect \/ Close \/ FetchNoSession \/ FetchBadParams \/ FetchRequest

SpecSource == InitSource /\ [][NextSource]_vars

\* --------------------------------------------------------------- ttl_cache
MaxTime == 4
MaxTtl == 2
MaxCacheCalls == 3
\* how long the wrapped function runs
Durations == {0, 1}

\* `age < ttl_seconds`, with a bound that includes the age
FreshInclusive(age, ttl) == age <= ttl
\* `age < ttl_seconds`
Fresh(age, ttl) == age < ttl
\* the read of the file: it exists, loads as a dict with a timestamp, and
\* is young enough
Usable(e, at, ttl) == e.kind = "stored" /\ Fresh(at - e.timestamp, ttl)

CanCallWrapper == pc = "cache" /\ cache_call.n < MaxCacheCalls
WrapperCall(cached, res, exc, write_error) ==
  [n |-> cache_call.n + 1, at |-> now, cached |-> cached, result |-> res,
   exc |-> exc, write_error |-> write_error]
\* the wrapped function returns a value no call has returned before
NewResult == func_calls + 1

\* time passes between two calls
Tick ==
  /\ pc = "cache" /\ now < MaxTime
  /\ now' = now + 1
  /\ UNCHANGED << pc, agent, cfg, dedupVars, splitVars, tagVars, normVars, tokVars,
                  runVars, rateVars, srcVars, ttl_seconds, entry, func_calls, cache_call >>

\* `if age < ttl_seconds: return data["result"]`
WrapperCached ==
  /\ CanCallWrapper
  /\ Usable(entry, now, ttl_seconds)
  /\ cache_call' = WrapperCall(TRUE, entry.result, "", FALSE)
  /\ UNCHANGED << pc, agent, cfg, dedupVars, splitVars, tagVars, normVars, tokVars,
                  runVars, rateVars, srcVars, now, ttl_seconds, entry, func_calls >>

\* `result = func(*args, **kwargs)`, the dump of the result under the
\* time the call began, `return result`
WrapperRefresh ==
  /\ CanCallWrapper
  /\ ~Usable(entry, now, ttl_seconds)
  /\ \E d \in Durations :
       /\ now + d <= MaxTime
       /\ now' = now + d
  /\ func_calls' = func_calls + 1
  /\ entry' = Stored(NewResult, now)
  /\ cache_call' = WrapperCall(FALSE, NewResult, "", FALSE)
  /\ UNCHANGED << pc, agent, cfg, dedupVars, splitVars, tagVars, normVars, tokVars,
                  runVars, rateVars, srcVars, ttl_seconds >>

\* the wrapped function raises: the exception leaves the wrapper before
\* the file is opened for writing
WrapperRaises ==
  /\ CanCallWrapper
  /\ ~Usable(entry, now, ttl_seconds)
  /\ \E d \in Durations :
       /\ now + d <= MaxTime
       /\ now' = now + d
  /\ func_calls' = func_calls + 1
  /\ cache_call' = WrapperCall(FALSE, 0, "Exception", FALSE)
  /\ UNCHANGED << pc, agent, cfg, dedupVars, splitVars, tagVars, normVars, tokVars,
                  runVars, rateVars, srcVars, ttl_seconds, entry >>

\* the write raises, "skip caching": open() failed and the file is as it
\* was, or pickle.dump failed on the file open() had emptied
WrapperWriteError ==
  /\ CanCallWrapper
  /\ ~Usable(entry, now, ttl_seconds)
  /\ \E d \in Durations :
       /\ now + d <= MaxTime
       /\ now' = now + d
  /\ func_calls' = func_calls + 1
  /\ entry' \in {entry, Unreadable}
  /\ cache_call' = WrapperCall(FALSE, NewResult, "", TRUE)
  /\ UNCHANGED << pc, agent, cfg, dedupVars, splitVars, tagVars, normVars, tokVars,
                  runVars, rateVars, srcVars, ttl_seconds >>

InitCache ==
  /\ pc = "cache"
  /\ now = 0
  /\ ttl_seconds \in 0..MaxTtl
  /\ entry \in {NoEntry, Unreadable}
  /\ func_calls = 0
  /\ cache_call = NoCall
  /\ agent = NoAgent /\ cfg = NoConfig
  /\ IdleDedup /\ IdleSplit /\ IdleTags /\ IdleNorm /\ IdleTok /\ IdleRun /\ IdleRate
  /\ IdleSource

NextCache ==
  Tick \/ WrapperCached \/ WrapperRefresh \/ WrapperRaises \/ WrapperWriteError

SpecCache == InitCache /\ [][NextCache]_vars

\* ================================================================ claims
\* the dedup key of the data model: the pair (uppercased asset or "NA",
\* text lowercased, whitespace runs collapsed, trimmed)
PairKey(o) == << Upper(OrElse(o.asset, S_NA)), TextNorm(o.text) >>

\* the positions (factor, index) of the observations split returned
OutPositions ==
  UNION {{<< f, i >> : i \in 1..Len(out_factors[f].observations)} :
           f \in 1..Len(out_factors)}
OutObs(p) == out_factors[p[1]].observations[p[2]]

\* the input position of the first observation with the dedup key of o
FirstWithKey(input, o) ==
  CHOOSE i \in 1..Len(input) :
    /\ PairKey(input[i]) = PairKey(o)
    /\ \A j \in 1..(i - 1) : PairKey(input[j]) # PairKey(o)

Perms(s) ==
  {[i \in 1..Len(s) |-> s[f[i]]] :
     f \in {g \in [1..Len(s) -> 1..Len(s)] : \A a, b \in 1..Len(s) : a # b => g[a] # g[b]}}

\* C1: the list _dedup_and_limit returns holds no two observations with the
\* same dedup key (uppercased asset or "NA", normalized lowercased text).
C1_DedupOutputKeysDistinct ==
  pc = "dedup_done" =>
    \A i, j \in 1..Len(kept) : i # j => PairKey(kept[i]) # PairKey(kept[j])

\* C2: for max_obs >= 0 and max_tokens_factor >= 0 the list _dedup_and_limit
\* returns has at most max_obs observations and at most max_tokens_factor
\* estimated tokens in total.
C2_DedupWithinBudget ==
  pc = "dedup_done" =>
    /\ Len(kept) <= agent.max_obs
    /\ SumSeq([i \in 1..Len(kept) |-> RoughTokenLen(kept[i].text)])
         <= agent.max_tokens_factor

\* C3: with splitting enabled, after every step of the grouping loop every
\* bucket, and at the end every returned factor, has at most
\* max_obs_per_factor observations and at most max_tokens_factor estimated
\* tokens.
C3_SplitWithinBudget ==
  cfg.enabled =>
    /\ \A b \in 1..Len(by_tag) :
         /\ Len(by_tag[b].obs_list) <= cfg.max_obs_per_factor
         /\ TokensOf(by_tag[b].obs_list) <= cfg.max_tokens_factor
    /\ \A f \in 1..Len(out_factors) :
         /\ Len(out_factors[f].observations) <= cfg.max_obs_per_factor
         /\ TokensOf(out_factors[f].observations) <= cfg.max_tokens_factor

\* C3 happens: split has returned a factor that is exactly full, and an
\* observation was dropped for the budget (its key was never placed).
C3_Witness ==
  /\ pc = "split_done" /\ cfg.enabled
  /\ \E f \in 1..Len(out_factors) :
       Len(out_factors[f].observations) = cfg.max_obs_per_factor
  /\ \E i \in 1..Len(assignments) : ObsKey(assignments[i].obs) \notin seen_keys

\* C4: in what an enabled split returns, no observation occurs twice (within
\* a factor or across factors), no dedup key occurs twice, and every output
\* observation, hence every output key, is one of the input factor.
C4_SplitPartition ==
  (pc = "split_done" /\ cfg.enabled) =>
    /\ \A p, q \in OutPositions : p # q => OutObs(p) # OutObs(q)
    /\ \A p, q \in OutPositions : p # q => PairKey(OutObs(p)) # PairKey(OutObs(q))
    /\ \A p \in OutPositions :
         \E i \in 1..Len(factor.observations) : factor.observations[i] = OutObs(p)
    /\ {PairKey(OutObs(p)) : p \in OutPositions}
         \subseteq {PairKey(factor.observations[i]) : i \in 1..Len(factor.observations)}

\* C4 happens: two factors are returned, and the input held two different
\* observations with one dedup key, of which one is in the output.
C4_Witness ==
  /\ pc = "split_done" /\ cfg.enabled
  /\ Len(out_factors) >= 2
  /\ \E i, j \in 1..Len(factor.observations) :
       /\ i < j
       /\ factor.observations[i] # factor.observations[j]
       /\ PairKey(factor.observations[i]) = PairKey(factor.observations[j])
       /\ \E p \in OutPositions : OutObs(p) = factor.observations[i]

\* C5: an observation that is not the first of its dedup key in input order
\* is in no factor split returns: every output observation is the first
\* input observation with its key.
C5_OnlyFirstOccurrenceSurvives ==
  (pc = "split_done" /\ cfg.enabled) =>
    \A p \in OutPositions :
      factor.observations[FirstWithKey(factor.observations, OutObs(p))] = OutObs(p)

\* C6: when a tag of the list normalizes to a tag of the priority list, the
\* primary tag is the normalized tag with the smallest priority index, and
\* it is the same for every permutation of the tag list.
C6_PrimaryTagOrderIndependent ==
  LET normed == {NormTag(tags[i]) : i \in {k \in 1..Len(tags) : tags[k] # << >>}}
      listed == normed \cap Range(cfg.priority)
      best == CHOOSE t \in listed :
                \A u \in listed : PrioIndex(cfg.priority, t) <= PrioIndex(cfg.priority, u)
  IN  (pc = "chosen" /\ listed # {}) =>
        /\ primary = best
        /\ \A p \in Perms(tags) : ChoosePrimaryTag(cfg.priority, p) = primary

\* C6 happens: ["news", "etf"] under the default priority has got "etf".
C6_Witness ==
  /\ pc = "chosen"
  /\ tags = << S_news, S_etf >>
  /\ cfg.priority = DEFAULT_TAG_PRIORITY
  /\ primary = S_etf

\* C7: a disabled split returns a list of exactly one factor, the input
\* factor with every field as it was.
C7_DisabledReturnsInput ==
  (pc = "split_done" /\ ~cfg.enabled) =>
    /\ Len(out_factors) = 1
    /\ out_factors[1].date = factor.date
    /\ out_factors[1].agent_name = factor.agent_name
    /\ out_factors[1].observations = factor.observations
    /\ out_factors[1].length_tokens = factor.length_tokens
    /\ out_factors[1].preference = factor.preference
    /\ out_factors[1].raw_sources = factor.raw_sources

\* C7 happens: a disabled split has returned for a factor that holds a
\* duplicate key and more observations and tokens than the limits allow.
C7_Witness ==
  /\ pc = "split_done" /\ ~cfg.enabled
  /\ Len(factor.observations) > cfg.max_obs_per_factor
  /\ factor.length_tokens > cfg.max_tokens_factor
  /\ \E i, j \in 1..Len(factor.observations) :
       i < j /\ PairKey(factor.observations[i]) = PairKey(factor.observations[j])
  /\ out_factors # << >>

\* C8: when the external call raises, run still returns a factor, and the
\* extractor has returned one fallback observation per event, in order,
\* tagged ["news", "fallback"].
C8_FallbackOnLLMFailure ==
  (pc = "run_done" /\ llm.raises /\ filtered # << >>) =>
    /\ result.exc = ""
    /\ Len(obs) = Len(filtered)
    /\ \A i \in 1..Len(obs) : obs[i].tags = << S_news, S_fallback >>

\* C9: for an empty batch run makes no external call and returns a factor
\* with exactly one observation, tagged ["news"]; and run makes no external
\* call only when the batch is empty.
C9_EmptyBatchNeutral ==
  pc = "run_done" =>
    /\ events = << >> =>
         /\ llm_calls = 0
         /\ result.exc = ""
         /\ Len(result.factor.observations) = 1
         /\ result.factor.observations[1].tags = << S_news >>
    /\ llm_calls = 0 => events = << >>

\* C10: whatever value the external call returns, run returns a factor and
\* raises nothing.
C10_MalformedResponseNeverAborts ==
  (pc = "run_done" /\ ~llm.raises /\ llm_calls = 1) => result.exc = ""

\* the case-insensitive count of the preference in "title content"
HitCount(ev) == Count(Lower(ev.title \o << " " >> \o ev.content), Lower(agent.preference))
\* the positions of the events of the batch with a positive count
Hits == {i \in 1..Len(events) : HitCount(events[i]) > 0}
\* the place of hit i when the hits are listed by falling count, ties in
\* input order
HitPlace(i) ==
  1 + Cardinality({j \in Hits : \/ HitCount(events[j]) > HitCount(events[i])
                                \/ HitCount(events[j]) = HitCount(events[i]) /\ j < i})

\* C11: with a preference, _filter_events returns exactly the events with a
\* positive count, by falling count and ties in input order; the input as it
\* is when no event has a positive count or there is no preference; and
\* never an empty list for a non-empty input.
C11_FilterKeepsHitsByScore ==
  pc = "filter_done" =>
    /\ (agent.preference = None \/ Hits = {}) => filtered = events
    /\ (agent.preference # None /\ Hits # {}) =>
         /\ Len(filtered) = Cardinality(Hits)
         /\ \A i \in Hits : filtered[HitPlace(i)] = events[i]
    /\ events # << >> => filtered # << >>

\* C11 happens: a batch with a miss, and two hits with the smaller count
\* first, has come back without the miss and with the hits swapped.
C11_Witness ==
  /\ pc = "filter_done"
  /\ agent.preference # None
  /\ Len(events) = 3 /\ Len(filtered) = 2
  /\ \E i, j \in Hits : i < j /\ filtered[1] = events[j] /\ filtered[2] = events[i]

\* the tags the keyword rules can add
HeuristicTags == {TagHeuristics[i].tag : i \in 1..Len(TagHeuristics)}
\* a tag that folding and synonym substitution leave as it is
FoldedFixed(synonyms, t) ==
  /\ t # << >> /\ Snake(t) = t
  /\ t \in DOMAIN synonyms => synonyms[t] = t
\* every tag the normalizer can substitute or infer is such a tag
CanonicalTargets(synonyms) ==
  /\ \A k \in DOMAIN synonyms : FoldedFixed(synonyms, synonyms[k])
  /\ \A h \in HeuristicTags : FoldedFixed(synonyms, h)

\* C12 as stated: for every synonym map and max-tags value,
\* _normalize_tags returns the list it returned unchanged when it is given
\* that list again.
C12_NormalizeIdempotent ==
  pc = "renormed" => nt_again = nt_out

\* C12 amended: the same, for max_tags_per_observation >= 0 and a synonym
\* map whose values, and the tags of the keyword rules, are non-empty folded
\* tokens that the map does not substitute.
C12_NormalizeIdempotentOnCanonical ==
  (pc = "renormed" /\ agent.max_tags_per_obs >= 0
     /\ CanonicalTargets(agent.tag_synonyms)) => nt_again = nt_out

\* C12 happens: a list with a synonym and an unfolded tag was folded,
\* substituted and truncated, and normalized once more.
C12_Witness ==
  /\ pc = "renormed" /\ agent.max_tags_per_obs = 1
  /\ CanonicalTargets(agent.tag_synonyms)
  /\ nt_raw = << S_news, S_ETF >>
  /\ nt_out = << S_macro >>

C14_SplitFactorFields ==
  (pc = "split_done" /\ cfg.enabled) =>
    \A f \in 1..Len(out_factors) :
      LET of == out_factors[f]
          T == of.preference
      IN  /\ of.agent_name = factor.agent_name \o << "#" >> \o T
          /\ of.date = factor.date
          /\ of.raw_sources = factor.raw_sources
          /\ of.length_tokens =
               SumSeq([i \in 1..Len(of.observations) |->
                         (WordCount(of.observations[i].text) * 13) \div 10])
          /\ \A i \in 1..Len(of.observations) :
               PrimaryOf(cfg, of.observations[i]) = T

\* C14 happens: split has returned a factor for the fallback tag and one for
\* a tag of the priority list, with fewer tokens than the source factor.
C14_Witness ==
  /\ pc = "split_done" /\ cfg.enabled
  /\ \E f, g \in 1..Len(out_factors) :
       /\ out_factors[f].preference = cfg.fallback_tag
       /\ out_factors[g].preference \in Range(cfg.priority)
       /\ out_factors[g].length_tokens < factor.length_tokens
       /\ out_factors[g].length_tokens > 0

\* C15: the list split returns is in strictly ascending order of agent_name
\* (so no two factors share a name), whatever the order in which the tags
\* were met.
C15_SplitSortedByName ==
  pc = "split_done" =>
    \A f, g \in 1..Len(out_factors) :
      f < g => StrLess(out_factors[f].agent_name, out_factors[g].agent_name)

\* C15 happens: the bucket met first has the greater name, and both buckets
\* gave a factor.
C15_Witness ==
  /\ pc = "split_done" /\ cfg.enabled
  /\ Len(out_factors) >= 2
  /\ \E a, b \in 1..Len(by_tag) :
       /\ a < b /\ StrLess(by_tag[b].tag, by_tag[a].tag)
       /\ by_tag[a].obs_list # << >> /\ by_tag[b].obs_list # << >>

\* C16 as stated: split never returns a factor without observations, and
\* returns the empty list for a source factor without observations or one
\* all of whose observations were rejected.
C16_NoEmptyFactor ==
  pc = "split_done" =>
    /\ \A f \in 1..Len(out_factors) : out_factors[f].observations # << >>
    /\ factor.observations = << >> => out_factors = << >>

\* C16 amended: the same with splitting enabled; and a bucket all of whose
\* candidates were rejected gives no factor.
C16_NoEmptyFactorWhenEnabled ==
  (pc = "split_done" /\ cfg.enabled) =>
    /\ \A f \in 1..Len(out_factors) : out_factors[f].observations # << >>
    /\ \A b \in 1..Len(by_tag) :
         by_tag[b].obs_list = << >> =>
           \A f \in 1..Len(out_factors) : out_factors[f].preference # by_tag[b].tag
    /\ (factor.observations = << >> \/ seen_keys = {}) => out_factors = << >>

\* C16 happens: one bucket has had every candidate rejected, another has
\* given a factor.
C16_Witness ==
  /\ pc = "split_done" /\ cfg.enabled
  /\ \E b \in 1..Len(by_tag) : by_tag[b].obs_list = << >>
  /\ out_factors # << >>

\* the input without the observations whose dedup key an earlier one has
FirstOccurrences(input) ==
  LET first == {i \in 1..Len(input) :
                  \A j \in 1..(i - 1) : PairKey(input[j]) # PairKey(input[i])}
      nth(k) == CHOOSE i \in first : Cardinality({j \in first : j < i}) = k - 1
  IN  [k \in 1..Cardinality(first) |-> input[nth(k)]]
\* the length of the longest prefix of d within both limits
LongestWithin(d, max_obs, max_tokens_factor) ==
  LET ok == {n \in 0..Len(d) :
               /\ n <= max_obs
               /\ SumSeq([i \in 1..n |-> RoughTokenLen(d[i].text)]) <= max_tokens_factor}
  IN  CHOOSE n \in ok \cup {0} : \A m \in ok : m <= n

\* C17: what _dedup_and_limit returns is the longest prefix of the input
\* without its later duplicates that has at most max_obs observations and at
\* most max_tokens_factor estimated tokens: accepted in input order, and
\* nothing is accepted after the first observation that does not fit.
C17_DedupIsLongestPrefix ==
  pc = "dedup_done" =>
    LET d == FirstOccurrences(observations)
    IN  kept = SubSeq(d, 1, LongestWithin(d, agent.max_obs, agent.max_tokens_factor))

\* round(w * 1.3), halves up, in tenths
RoundedTenths(w) == (13 * w + 5) \div 10

\* C18 as stated: the estimated token cost of a text of w words is
\* round(w * 1.3) (2 words cost 3), and both _rough_token_len agree.
C18_TokenCostRounded ==
  pc = "tokens_done" =>
    /\ tl_agent = RoundedTenths(tl_words)
    /\ tl_split = tl_agent

\* C18 amended: the cost is w * 1.3 cut to its whole part (2 words cost 2),
\* and both _rough_token_len agree.
C18_TokenCostTruncated ==
  pc = "tokens_done" =>
    /\ 10 * tl_agent <= 13 * tl_words
    /\ 13 * tl_words < 10 * (tl_agent + 1)
    /\ tl_split = tl_agent

\* C18 happens: two words, two blanks between them, cost 2.
C18_Witness ==
  /\ pc = "tokens_done"
  /\ tl_text = << "w", " ", " ", "w" >>
  /\ tl_agent = 2 /\ tl_split = 2

\* the observations the grouping loop has gone past whose key is in no
\* bucket: those rejected for the budget of their bucket
Rejected == {i \in 1..(spos - 1) : ObsKey(assignments[i].obs) \notin seen_keys}

\* C19: an observation rejected because the bucket of its primary tag is
\* full is in no bucket and in no returned factor, no observation is ever
\* in a bucket other than that of its primary tag, and the walk goes on:
\* whatever was left out once the walk is over does not fit its bucket, so
\* every later observation that fitted was accepted.
C19_OverBudgetDroppedWalkGoesOn ==
  (cfg.enabled /\ pc \in {"group", "split_done"}) =>
    /\ \A i \in Rejected :
         /\ \A b \in 1..Len(by_tag) :
              \A k \in 1..Len(by_tag[b].obs_list) :
                by_tag[b].obs_list[k] # assignments[i].obs
         /\ \A p \in OutPositions : OutObs(p) # assignments[i].obs
         /\ ~FitsBucket(cfg, BucketOf([by_tag |-> by_tag], assignments[i].tag),
                        assignments[i].obs)
    /\ \A b \in 1..Len(by_tag) :
         \A k \in 1..Len(by_tag[b].obs_list) :
           PrimaryOf(cfg, by_tag[b].obs_list[k]) = by_tag[b].tag
    /\ pc = "split_done" => spos = Len(assignments) + 1

\* C19 happens: an observation was rejected for the tokens of its bucket,
\* and a later, smaller one with the same primary tag is in the returned
\* factor of that tag.
C19_Witness ==
  /\ pc = "split_done" /\ cfg.enabled
  /\ \E i \in Rejected, j \in 1..Len(assignments) :
       /\ i < j
       /\ assignments[i].tag = assignments[j].tag
       /\ TokensOf(<< assignments[j].obs >>) < TokensOf(<< assignments[i].obs >>)
       /\ \E p \in OutPositions :
            /\ OutObs(p) = assignments[j].obs
            /\ out_factors[p[1]].preference = assignments[j].tag

\* the folded and synonym-substituted form of a raw tag
Canon(synonyms, t) ==
  IF Snake(t) \in DOMAIN synonyms THEN synonyms[Snake(t)] ELSE Snake(t)
FoldedOf(raw) == [i \in 1..Len(raw) |-> Snake(raw[i])]
FormsOf(synonyms, raw) == [i \in 1..Len(raw) |-> Canon(synonyms, raw[i])]
\* the rules a keyword of which is in the lowered text
FiringOn(txt) ==
  {r \in 1..Len(TagHeuristics) : \E k \in TagHeuristics[r].keys : Contains(k, txt)}
Min(a, b) == IF a < b THEN a ELSE b
\* out lists, as far as it goes, the members of the set of positions `from`
\* in rising order, each as at(position) gives it
ListsInOrder(out, from, at) ==
  \A i \in from :
    (1 + Cardinality({j \in from : j < i})) <= Len(out) =>
      out[1 + Cardinality({j \in from : j < i})] = at[i]
\* folded: the folded raw tags; forms: their substituted forms; firing: the
\* firing rules
TagsShape(out, max_tags, folded, forms, firing) ==
  LET surviving == {i \in 1..Len(folded) : folded[i] # << >>}
      firstSeen == {i \in surviving :
                      \A j \in surviving : j < i => forms[j] # forms[i]}
  IN  /\ \A a, b \in 1..Len(out) : a # b => out[a] # out[b]
      /\ Len(out) <= max_tags
      /\ surviving # {} =>
           /\ Len(out) = Min(Cardinality(firstSeen), max_tags)
           /\ ListsInOrder(out, firstSeen, forms)
      /\ surviving = {} =>
           /\ Len(out) = Min(Cardinality(firing), max_tags)
           /\ ListsInOrder(out, firing, [r \in 1..Len(TagHeuristics) |-> TagHeuristics[r].tag])

\* C20: for max_tags_per_observation >= 0 the list _normalize_tags returns
\* has no tag twice and at most max_tags_per_observation tags; when a raw tag
\* survives folding it lists the forms of the raw tags in first-seen order,
\* the earliest ones when it is cut, and no tag of the keyword rules is
\* added; otherwise it lists the tags of the firing rules, in rule order.
C20_NormalizedTagsShape ==
  (pc = "normed" /\ agent.max_tags_per_obs >= 0) =>
    TagsShape(nt_out, agent.max_tags_per_obs, FoldedOf(nt_raw),
              FormsOf(agent.tag_synonyms, nt_raw), FiringOn(Lower(nt_text)))

\* C20 happens: of two forms the first was kept and the synonym cut off,
\* although keyword rules fire on the text.
C20_Witness ==
  /\ pc = "normed" /\ agent.max_tags_per_obs = 1
  /\ nt_raw = << S_ETF, S_news >>
  /\ nt_text = TxtCpiEtf
  /\ agent.tag_synonyms = SynonymMaps[1]
  /\ nt_out = << S_etf >>

\* ---- C21
\* what the 5-point scale makes of the int a value holds: the int itself
\* when it lies on the scale, the nearer end of the scale otherwise
IsInt(x) == x.t \in {"num", "bool"}
AboveScale(x) == x.n > 2 \/ (x.e > 0 /\ x.n > 0)
BelowScale(x) == x.n < -2 \/ (x.e > 0 /\ x.n < 0)
OnScale(x) == IF AboveScale(x) THEN 2 ELSE IF BelowScale(x) THEN -2 ELSE x.n
\* the ints float() has no value for: 2 * 10^308 and beyond
BeyondFloat(x) == x.e > 308 \/ (x.e = 308 /\ x.n \notin {-1, 1})
Uncoercible(x) ==
  \/ x.t \in {"null", "list", "dict"}
  \/ x.t = "str" /\ x.s \in Range(NonNumeralTexts)

\* C21 as stated: _coerce_rating returns a value of {-2,..,2} for every
\* input, x clamped to [-2,2] for every int x, and 0 for a value that
\* cannot be coerced to a number.
C21_RatingClampsEveryInt ==
  pc = "rated" =>
    /\ rt_out \in -2..2
    /\ IsInt(rt_x) => rt_out = OnScale(rt_x)
    /\ Uncoercible(rt_x) => rt_out = 0

\* C21 amended: _coerce_rating returns a value of {-2,..,2} for every
\* input; x clamped to [-2,2] for every int x that float() has a value
\* for; 0 for an int beyond the range of float and for a value that
\* cannot be coerced to a number.
C21_RatingClampsFloatableInt ==
  pc = "rated" =>
    /\ rt_out \in -2..2
    /\ IsInt(rt_x) /\ ~BeyondFloat(rt_x) => rt_out = OnScale(rt_x)
    /\ IsInt(rt_x) /\ BeyondFloat(rt_x) => rt_out = 0
    /\ Uncoercible(rt_x) => rt_out = 0

\* an int of 309 digits below the scale is clamped to its lower end
C21_Witness == pc = "rated" /\ rt_x = JPow(-1, 308) /\ rt_out = -2

\* ---- C22
\* the tags of an observation as the splitter normalizes them, the ones
\* that normalize to the empty string left out
OwnTags(o) == {NormTag(o.tags[i]) : i \in 1..Len(o.tags)} \ {<< >>}

\* C22: the primary tag split assigns to an observation is one of the
\* observation's own normalized tags whenever one of its tags normalizes to
\* a non-empty string, and the fallback tag is assigned only when none does.
C22_PrimaryIsOwnTag ==
  pc \in {"group", "split_done"} =>
    \A i \in 1..Len(assignments) :
      LET own == OwnTags(assignments[i].obs)
          tag == assignments[i].tag
      IN  /\ own # {} => tag \in own
          /\ (tag = cfg.fallback_tag /\ tag \notin own) => own = {}

\* ---- C23
\* a session is open: a connect() has been called with no close() after it
LastCall(calls, op) ==
  LET at == {i \in 1..Len(calls) : calls[i].op = op}
  IN  IF at = {} THEN 0 ELSE CHOOSE i \in at : \A k \in at : k <= i
SessionOpen(calls) == LastCall(calls, "connect") > LastCall(calls, "close")

\* C23: in every call on the source, whatever calls came before: a fetch()
\* made while no session is open raises RuntimeError and issues no HTTP
\* request, so a request is issued only while one is open; a fetch() made
\* while one is open, with arguments that convert, issues one; close()
\* leaves the source with no session and changes nothing when none is open;
\* connect() leaves it with a session.
C23_SessionLifecycle ==
  [][src_calls' # src_calls =>
       LET call == src_calls'[Len(src_calls')]
           open == SessionOpen(src_calls)
       IN  /\ (call.op = "fetch" /\ ~open) =>
                 call.exc = "RuntimeError" /\ requests_sent' = requests_sent
           /\ requests_sent' # requests_sent => call.op = "fetch" /\ open
           /\ (call.op = "fetch" /\ open /\ call.start # "nan") =>
                 requests_sent' = requests_sent + 1 /\ call.exc # "RuntimeError"
           /\ call.op = "close" => session' = 0
           /\ (call.op = "close" /\ ~open) =>
                 UNCHANGED << session, live_sessions, requests_sent >>
           /\ call.op = "connect" => session' # 0
    ]_vars

\* connect, close, a fetch that raised RuntimeError, connect again, a fetch
\* that returned: one request has been issued
C23_Witness ==
  /\ Len(src_calls) = 5
  /\ [i \in 1..5 |-> src_calls[i].op] = << "connect", "close", "fetch", "connect", "fetch" >>
  /\ src_calls[3].exc = "RuntimeError"
  /\ src_calls[5].exc = ""
  /\ requests_sent = 1
  /\ session = 2

\* ---- C24
\* an entry exists whose age at the time of the call is below the ttl
HasFreshEntry == entry.kind = "stored" /\ now - entry.timestamp < ttl_seconds
\* the call the step makes is served from the cache: the stored result is
\* returned and the wrapped function is not invoked
ServedFromCache ==
  /\ func_calls' = func_calls
  /\ cache_call'.cached /\ cache_call'.exc = ""
  /\ cache_call'.result = entry.result
  /\ entry' = entry
InvokedOnce == func_calls' = func_calls + 1 /\ ~cache_call'.cached
WrapperCalled == cache_call'.n # cache_call.n

\* C24 as stated: a call is served from the cache if and only if an entry
\* exists whose age is below ttl_seconds; otherwise the wrapped function is
\* invoked exactly once and, if it returns, the entry becomes its result
\* stamped with the time the call began; if it raises, the entry is left as
\* it was.  So a result served is never as old as ttl_seconds.
C24_CacheFreshness ==
  [][WrapperCalled =>
       /\ HasFreshEntry <=> ServedFromCache
       /\ ~HasFreshEntry => InvokedOnce
       /\ (~HasFreshEntry /\ cache_call'.exc = "") =>
             entry' = Stored(cache_call'.result, now)
       /\ (~HasFreshEntry /\ cache_call'.exc # "") => entry' = entry
       /\ cache_call'.cached => now - entry.timestamp < ttl_seconds
    ]_vars

\* C24 amended: the same, the entry becoming the result stamped with the
\* time the call began when the write succeeds; when the write fails the
\* result is returned all the same and the entry is left as it was or left
\* unreadable.
C24_CacheFreshnessUnlessWriteFails ==
  [][WrapperCalled =>
       /\ HasFreshEntry <=> ServedFromCache
       /\ ~HasFreshEntry => InvokedOnce
       /\ (~HasFreshEntry /\ cache_call'.exc = "" /\ ~cache_call'.write_error) =>
             entry' = Stored(cache_call'.result, now)
       /\ (~HasFreshEntry /\ cache_call'.exc = "" /\ cache_call'.write_error) =>
             /\ entry' \in {entry, Unreadable}
             /\ cache_call'.result = func_calls'
       /\ (~HasFreshEntry /\ cache_call'.exc # "") => entry' = entry
       /\ cache_call'.cached => now - entry.timestamp < ttl_seconds
    ]_vars

\* with a ttl of 2: the second call, one tick after the first, was served
\* the first call's result; the third, at age 2, invoked the function again
C24_Witness ==
  /\ ttl_seconds = 2
  /\ cache_call.n = 3 /\ cache_call.at = 2 /\ ~cache_call.cached
  /\ func_calls = 2
  /\ entry = Stored(2, 2)
====
